---- MODULE Spec2Model ----
(***************************************************************************)
(* A model of the IRC session of src/irc/states.go: the reader goroutine,  *)
(* the run loop, the registration handler (handleStart) and the message    *)
(* handler (handle), with the connection and the clock as environment.     *)
(*                                                                         *)
(* Strings are TLA+ strings; a line written to the connection is the text  *)
(* the format string produces, without its CRLF.  A parameter that the     *)
(* code splits (a capability list) is carried already split, in the field  *)
(* "list" of the message.                                                  *)
(***************************************************************************)
EXTENDS Integers, Sequences, FiniteSets, TLC

(***************************************************************************)
(* Bounds of the model.                                                    *)
(***************************************************************************)
\* lines the reader scans in the registration specification
MaxScanReg == 3
\* buffers in the list of the buffer-list specification
MaxBuffers == 3
\* buffers in the list of the focus specification
MaxFocusBuffers == 2
\* lines in one buffer
MaxLines == 2
\* highlights counted on one buffer
MaxHighlights == 1

MaxMergeLines == 3

MaxEvents == 3

MaxBoundTime == 5

MaxBoundLines == 3

MaxHistory == 2

MaxHistoryLines == 3

MaxReadLines == 2

MaxReadTime == 3

MaxScroll == 2

MaxReadSets == 3

\* capacity of app.events in the model (eventChanSize, 1024, scaled down)
EventChanSize == 2

\* events the terminal produces, connections and messages per connection
MaxUiEvents == 2

MaxConns == 2

MaxMsgs == 2

\* typings that time out
MaxStops == 1

\* rows of the timeline, bs.tlHeight
TlHeight == 2

\* lines of the buffer, line times and history requests where the view scrolls
MaxScrollLines == 3

MaxScrollTime == 1

MaxRequests == 1
\* events of the line that App.mergeLine is applied to
MaxMergeEvents == 4

\* the longest text laid out and the widest timeline
MaxBodyLen == 5

MaxWidth == 4

\* connections of one instance of App.ircLoop, notifications of the bouncer
\* and messages of one network connection, in the runs of SpecBouncer
MaxNetConns == 1

MaxNotifs == 2

MaxNetMsgs == 1

\* lines the reader scans in the capability specification
MaxScanCaps == 4
\* lines the reader scans in the history specification
MaxScanBatch == 4
\* lines the reader scans in the channel specification
MaxScanChan == 3
\* lines the reader scans in the run-loop specification
MaxScanRun == 3
\* callers queue actions while fewer than MaxWritten lines and events are logged
MaxWritten == 6
\* lines the reader scans in the typing specification
MaxScanTyping == 1
\* the last second of the clock
MaxTime == 4
\* messages and actions waiting in s.msgs / s.acts (the code's capacity is 16)
MaxQueue == 1

(***************************************************************************)
(* Generic helpers: Go maps as functions, sequences.                       *)
(***************************************************************************)
EmptyMap == [k \in {} |-> ""]

MapPut(f, k, v) == [j \in DOMAIN f \cup {k} |-> IF j = k THEN v ELSE f[j]]

MapDel(f, k) == [j \in DOMAIN f \ {k} |-> f[j]]

Range(q) == {q[i] : i \in 1..Len(q)}

\* every order in which a Go "for ... range map" may visit the keys S
Orderings(S) ==
    {q \in [1..Cardinality(S) -> S] : \A i, j \in 1..Cardinality(S) : q[i] = q[j] => i = j}

(***************************************************************************)
(* strings.ToLower, on the names of the model.                             *)
(***************************************************************************)
ToLower(str) ==
    CASE str = "Bob" -> "bob"
      [] str = "Bob_" -> "bob_"
      [] str = "Amy" -> "amy"
      [] str = "Amy_" -> "amy_"
      [] str = "#A" -> "#a"
      [] str = "#B" -> "#b"
      [] OTHER -> str

(***************************************************************************)
(* base64.StdEncoding.EncodeToString over a sequence of bytes.             *)
(***************************************************************************)
B64Alphabet ==
    << "A", "B", "C", "D", "E", "F", "G", "H", "I", "J", "K", "L", "M",
       "N", "O", "P", "Q", "R", "S", "T", "U", "V", "W", "X", "Y", "Z",
       "a", "b", "c", "d", "e", "f", "g", "h", "i", "j", "k", "l", "m",
       "n", "o", "p", "q", "r", "s", "t", "u", "v", "w", "x", "y", "z",
       "0", "1", "2", "3", "4", "5", "6", "7", "8", "9", "+", "/" >>

B64Char(v) == B64Alphabet[v + 1]

RECURSIVE Base64(_)
Base64(b) ==
    IF Len(b) = 0 THEN ""
    ELSE IF Len(b) = 1 THEN
        B64Char(b[1] \div 4) \o B64Char((b[1] % 4) * 16) \o "=="
    ELSE IF Len(b) = 2 THEN
        B64Char(b[1] \div 4) \o B64Char((b[1] % 4) * 16 + b[2] \div 16)
            \o B64Char((b[2] % 16) * 4) \o "="
    ELSE
        B64Char(b[1] \div 4) \o B64Char((b[1] % 4) * 16 + b[2] \div 16)
            \o B64Char((b[2] % 16) * 4 + b[3] \div 64) \o B64Char(b[3] % 64)
            \o Base64(SubSeq(b, 4, Len(b)))

(***************************************************************************)
(* SASL PLAIN.  A nil SASLClient is NoAuth.                                *)
(***************************************************************************)
NoAuth == [ok |-> FALSE, Username |-> <<>>, Password |-> <<>>]

SASLPlain(u, p) == [ok |-> TRUE, Username |-> u, Password |-> p]

Handshake(auth) == "PLAIN"

\* [err, res]: err when the challenge is not "+"
Respond(auth, challenge) ==
    IF challenge # "+"
    THEN [err |-> TRUE, res |-> ""]
    ELSE [err |-> FALSE,
          res |-> Base64(auth.Username \o <<0>> \o auth.Username \o <<0>> \o auth.Password)]

SupportedCapabilities ==
    { "account-notify", "account-tag", "away-notify", "batch", "cap-notify",
      "draft/chathistory", "echo-message", "extended-join", "invite-notify",
      "labeled-response", "message-tags", "multi-prefix", "server-time",
      "sasl", "setname", "userhost-in-names" }

(***************************************************************************)
(* Numerics.                                                               *)
(***************************************************************************)
rplWelcome == "001"
rplIsupport == "005"
rplTopic == "332"
rplWhoreply == "352"
rplNamreply == "353"
rplEndofnames == "366"
errNicknameinuse == "433"
rplLoggedin == "900"
errNicklocked == "902"
errSaslfail == "904"
errSasltoolong == "905"
errSaslaborted == "906"
errSaslalready == "907"
rplSaslmechs == "908"

SaslErrors ==
    {errNicklocked, errSaslfail, errSasltoolong, errSaslaborted, errSaslalready, rplSaslmechs}

(***************************************************************************)
(* FullMask of "nick!user@host", on the masks of the model: <<nick, user,  *)
(* host>>; a mask without '!' and '@' is a bare nick.                      *)
(***************************************************************************)
FullMask(mask) ==
    CASE mask = "bob!bob@example.org" -> <<"bob", "bob", "example.org">>
      [] mask = "Amy!amy@example.org" -> <<"Amy", "amy", "example.org">>
      [] OTHER -> <<mask, "", "">>

(***************************************************************************)
(* Messages, as Tokenize returns them.  params is 1-based: the code's      *)
(* Params[i] is params[i+1].  "list" is the last parameter when the code   *)
(* splits it: capability tokens [name, neg] for CAP, [Nick, PowerLevel]    *)
(* for RPL_NAMREPLY.  time = 0 stands for no usable time tag.              *)
(***************************************************************************)
Msg(prefix, cmd, params) ==
    [tags |-> {}, time |-> 0, prefix |-> prefix, cmd |-> cmd, params |-> params, list |-> <<>>]

MsgList(prefix, cmd, params, list) ==
    [tags |-> {}, time |-> 0, prefix |-> prefix, cmd |-> cmd, params |-> params, list |-> list]

Tagged(m, k, v) == [m EXCEPT !.tags = @ \cup {<<k, v>>}]

HasTag(m, k) == \E p \in m.tags : p[1] = k

Tag(m, k) == (CHOOSE p \in m.tags : p[1] = k)[2]

Cap(name) == [name |-> name, neg |-> FALSE]

NoCap(name) == [name |-> name, neg |-> TRUE]

\* TokenizeCaps: a leading '-' clears Enable
TokenizeCaps(list) == [i \in 1..Len(list) |-> [Name |-> list[i].name, Enable |-> ~list[i].neg]]

\* strings.Split(param, " ")
SplitCaps(list) ==
    [i \in 1..Len(list) |-> IF list[i].neg THEN "-" \o list[i].name ELSE list[i].name]

\* msg.Time(), or time.Now() when the tag is absent
TimeOf(s, m) == IF m.time # 0 THEN m.time ELSE s.now

(***************************************************************************)
(* The state.                                                              *)
(***************************************************************************)
VARIABLES
    auth, debug,                    \* SessionParams.Auth, SessionParams.Debug
    nick, nickCf, user, real, acct, host,
    running, registered,
    typingStamps, availableCaps, enabledCaps,
    users, channels, chBatches,
    msgs, acts,                     \* the channels s.msgs and s.acts
    evts,                           \* everything sent on s.evts, in order
    out,                            \* the lines written to conn, with the time of the write
    connClosed,                     \* conn.Close() was called
    wfail,                          \* conn.Write fails (the write side is broken)
    readerPc, runPc,                \* the two goroutines of NewSession
    now,                            \* the clock, in seconds
    nscan,                          \* lines scanned by the reader
    srv,                            \* the server: client lines read, replies on the wire
    bs,                             \* the user interface's BufferList
    app,                            \* the orchestrator's state
    loop                            \* the goroutines around app.events, and what they did

vars ==
    << auth, debug, bs, app, loop, nick, nickCf, user, real, acct, host, running, registered,
       typingStamps, availableCaps, enabledCaps, users, channels, chBatches,
       msgs, acts, evts, out, connClosed, wfail, readerPc, runPc, now, nscan, srv >>

\* the fields the handlers read and write, as one value
Pack ==
    [ auth |-> auth, debug |-> debug, nick |-> nick, nickCf |-> nickCf, user |-> user,
      real |-> real, acct |-> acct, host |-> host, registered |-> registered,
      typingStamps |-> typingStamps, availableCaps |-> availableCaps,
      enabledCaps |-> enabledCaps, users |-> users, channels |-> channels,
      chBatches |-> chBatches, evts |-> evts, out |-> out, connClosed |-> connClosed,
      wfail |-> wfail, now |-> now, err |-> "" ]

Unpack(s) ==
    /\ nick' = s.nick
    /\ nickCf' = s.nickCf
    /\ acct' = s.acct
    /\ host' = s.host
    /\ registered' = s.registered
    /\ typingStamps' = s.typingStamps
    /\ availableCaps' = s.availableCaps
    /\ enabledCaps' = s.enabledCaps
    /\ users' = s.users
    /\ channels' = s.channels
    /\ chBatches' = s.chBatches
    /\ evts' = s.evts
    /\ out' = s.out
    /\ connClosed' = s.connClosed
    /\ UNCHANGED <<auth, debug, bs, app, loop, user, real, wfail, now, srv>>

(***************************************************************************)
(* Events.                                                                 *)
(***************************************************************************)
\* line is the text of an outgoing line, and the message itself for an incoming one
RawMessageEvent(line, outgoing) ==
    IF outgoing THEN [type |-> "Raw", Message |-> line, Outgoing |-> TRUE]
    ELSE [type |-> "Raw", Incoming |-> line, Outgoing |-> FALSE]

ErrorValue(text) == [type |-> "error", text |-> text]

Emit(s, ev) == [s EXCEPT !.evts = Append(@, ev)]

RECURSIVE EmitRaw(_, _)
EmitRaw(s, lines) ==
    IF lines = <<>> THEN s
    ELSE EmitRaw(Emit(s, RawMessageEvent(Head(lines), TRUE)), Tail(lines))

(***************************************************************************)
(* Session.send: one conn.Write of the formatted text, here its lines.     *)
(* The write fails as a whole when the connection is closed or broken.     *)
(***************************************************************************)
send(s, lines) ==
    LET failed == s.wfail \/ s.connClosed
        written == [i \in 1..Len(lines) |-> [line |-> lines[i], at |-> s.now]]
        s1 == [s EXCEPT !.out = IF failed THEN @ ELSE @ \o written,
                        !.err = IF failed THEN "write failed" ELSE ""]
    IN  IF s.debug THEN EmitRaw(s1, lines) ELSE s1

(***************************************************************************)
(* Names of the model.                                                     *)
(***************************************************************************)
\* Session.IsChannel: the first character is '#' or '&'
IsChannel(name) == name \in {"#a", "#A", "#b", "#B"}

\* BATCH's first parameter: Params[0][0] == '+' and Params[0][1:]
BatchStart(ref) == ref \in {"+b1", "+b2"}

BatchId(ref) ==
    CASE ref \in {"+b1", "-b1"} -> "b1"
      [] ref \in {"+b2", "-b2"} -> "b2"
      [] OTHER -> ref

(***************************************************************************)
(* Session.privmsgToEvent.  The zero Event is what the function returns    *)
(* when the target is a channel that is not in s.channels.                 *)
(***************************************************************************)
NilEvent == [type |-> "nil"]

privmsgToEvent(s, m) ==
    LET nk == FullMask(m.prefix)[1]
        targetCf == ToLower(m.params[1])
    IN  IF ~IsChannel(targetCf)
        THEN [type |-> "QueryMessage", Nick |-> nk, Command |-> m.cmd,
              Content |-> m.params[2], Time |-> TimeOf(s, m)]
        ELSE IF targetCf \in DOMAIN s.channels
        THEN [type |-> "ChannelMessage", Nick |-> nk, Channel |-> s.channels[targetCf].Name,
              Command |-> m.cmd, Content |-> m.params[2], Time |-> TimeOf(s, m)]
        ELSE NilEvent

(***************************************************************************)
(* The loops of handle and handleStart over capability lists.              *)
(***************************************************************************)
\* for _, c := range diff: set or delete s.availableCaps[c.Name]
RECURSIVE ApplyCaps(_, _)
ApplyCaps(avail, diff) ==
    IF diff = <<>> THEN avail
    ELSE ApplyCaps(IF Head(diff).Enable THEN avail \cup {Head(diff).Name}
                   ELSE avail \ {Head(diff).Name},
                   Tail(diff))

\* the CAP REQ lines of CAP NEW / CAP DEL, in the order of the list
RECURSIVE ReqLines(_)
ReqLines(diff) ==
    IF diff = <<>> THEN <<>>
    ELSE IF ~Head(diff).Enable \/ Head(diff).Name \notin SupportedCapabilities
         THEN ReqLines(Tail(diff))
         ELSE <<"CAP REQ " \o Head(diff).Name>> \o ReqLines(Tail(diff))

FlipCaps(diff) == [i \in 1..Len(diff) |-> [diff[i] EXCEPT !.Enable = ~@]]

\* handleStart's CAP ACK: enable each capability, start SASL on "sasl",
\* and return at the first failed write
RECURSIVE AckStart(_, _)
AckStart(s, cs) ==
    IF cs = <<>> THEN s
    ELSE LET s1 == [s EXCEPT !.enabledCaps = @ \cup {Head(cs)}]
         IN  IF s.auth.ok /\ Head(cs) = "sasl"
             THEN LET s2 == send(s1, <<"AUTHENTICATE " \o Handshake(s.auth)>>)
                  IN  IF s2.err # "" THEN s2 ELSE AckStart(s2, Tail(cs))
             ELSE AckStart(s1, Tail(cs))

\* rplNamreply's loop over the names
RECURSIVE AddNames(_, _, _)
AddNames(s, channelCf, names) ==
    IF names = <<>> THEN s
    ELSE LET nm == Head(names).Nick
             nmCf == ToLower(nm)
             s1 == IF nmCf \in DOMAIN s.users THEN s
                   ELSE [s EXCEPT !.users = MapPut(@, nmCf, nm)]
             s2 == [s1 EXCEPT !.channels[channelCf].Members =
                                  MapPut(@, nmCf, Head(names).PowerLevel)]
         IN  AddNames(s2, channelCf, Tail(names))

\* QUIT's loop over s.channels, visited in the order ord
RECURSIVE QuitChannels(_, _, _)
QuitChannels(s, nkCf, ord) ==
    IF ord = <<>> THEN <<>>
    ELSE IF nkCf \notin DOMAIN s.channels[Head(ord)].Members
         THEN QuitChannels(s, nkCf, Tail(ord))
         ELSE <<s.channels[Head(ord)].Name>> \o QuitChannels(s, nkCf, Tail(ord))

(***************************************************************************)
(* Session.handle, one operator per case of its switch.  Each takes the    *)
(* session s and the message m and returns the session after the case;     *)
(* s.err is the error the handler returns ("" for nil).                    *)
(***************************************************************************)
\* a message tagged batch=id whose batch is open goes into the batch
handleBatched(s, m) ==
    LET id == Tag(m, "batch")
        b == s.chBatches[id]
    IN  [s EXCEPT !.chBatches[id] =
                      [Target |-> b.Target,
                       Messages |-> Append(b.Messages, privmsgToEvent(s, m))]]

\* handleWelcome that leaves s.registered unset
handleWelcome_NotRegistered(s, m) ==
    LET s1 == [s EXCEPT !.nick = m.params[1], !.nickCf = ToLower(m.params[1])]
        s2 == Emit(s1, [type |-> "Registered"])
    IN  IF s2.host = "" THEN send(s2, <<"WHO " \o s2.nick>>) ELSE s2

handleWelcome(s, m) ==
    LET s1 == [s EXCEPT !.nick = m.params[1],
                        !.nickCf = ToLower(m.params[1]),
                        !.registered = TRUE]
        s2 == Emit(s1, [type |-> "Registered"])
    IN  IF s2.host = "" THEN send(s2, <<"WHO " \o s2.nick>>) ELSE s2

handleWhoreply(s, m) ==
    IF s.nickCf = ToLower(m.params[6]) THEN [s EXCEPT !.host = m.params[4]] ELSE s

handleCapAck(s, m) == [s EXCEPT !.enabledCaps = @ \cup Range(SplitCaps(m.list))]

handleCapNak(s, m) == [s EXCEPT !.enabledCaps = @ \ Range(SplitCaps(m.list))]

handleCapNew(s, m) ==
    LET diff == TokenizeCaps(m.list)
        s1 == [s EXCEPT !.availableCaps = ApplyCaps(@, diff)]
    IN  send(s1, ReqLines(diff))

\* CAP DEL that does not invert the list
handleCapDel_NoFlip(s, m) ==
    LET diff == TokenizeCaps(m.list)
        s1 == [s EXCEPT !.availableCaps = ApplyCaps(@, diff)]
    IN  send(s1, ReqLines(diff))

handleCapDel(s, m) ==
    LET diff == FlipCaps(TokenizeCaps(m.list))
        s1 == [s EXCEPT !.availableCaps = ApplyCaps(@, diff)]
    IN  send(s1, ReqLines(diff))

handleCap(s, m) ==
    CASE m.params[2] = "ACK" -> handleCapAck(s, m)
      [] m.params[2] = "NAK" -> handleCapNak(s, m)
      [] m.params[2] = "NEW" -> handleCapNew(s, m)
      [] m.params[2] = "DEL" -> handleCapDel(s, m)
      [] OTHER -> s

handleJoin(s, m) ==
    LET nk == FullMask(m.prefix)[1]
        nkCf == ToLower(nk)
        channelCf == ToLower(m.params[1])
    IN  IF nkCf = s.nickCf
        THEN [s EXCEPT !.channels =
                           MapPut(@, channelCf, [Name |-> m.params[1], Members |-> EmptyMap])]
        ELSE IF channelCf \in DOMAIN s.channels
        THEN LET s1 == IF nkCf \in DOMAIN s.users THEN s
                       ELSE [s EXCEPT !.users = MapPut(@, nkCf, nk)]
                 s2 == [s1 EXCEPT !.channels[channelCf].Members = MapPut(@, nkCf, "")]
             IN  Emit(s2, [type |-> "UserJoin", Channel |-> s.channels[channelCf].Name,
                           Nick |-> nk, Time |-> TimeOf(s, m)])
        ELSE s

handlePart(s, m) ==
    LET nk == FullMask(m.prefix)[1]
        nkCf == ToLower(nk)
        channelCf == ToLower(m.params[1])
    IN  IF nkCf = s.nickCf
        THEN Emit([s EXCEPT !.channels = MapDel(@, channelCf)],
                  [type |-> "SelfPart", Channel |-> m.params[1]])
        ELSE IF channelCf \in DOMAIN s.channels
        THEN Emit([s EXCEPT !.channels[channelCf].Members = MapDel(@, nkCf)],
                  [type |-> "UserPart", Channels |-> <<s.channels[channelCf].Name>>,
                   Nick |-> nk, Time |-> TimeOf(s, m)])
        ELSE s

\* ord: the order in which the range over s.channels visits the channels
handleQuit(s, m, ord) ==
    LET nk == FullMask(m.prefix)[1]
        nkCf == ToLower(nk)
    IN  Emit(s, [type |-> "UserPart", Channels |-> QuitChannels(s, nkCf, ord),
                 Nick |-> nk, Time |-> TimeOf(s, m)])

\* c.Secret is set on a copy of the Channel and is lost
handleNamreply(s, m) ==
    LET channelCf == ToLower(m.params[3])
    IN  IF channelCf \in DOMAIN s.channels THEN AddNames(s, channelCf, m.list) ELSE s

handleEndofnames(s, m) ==
    LET channelCf == ToLower(m.params[2])
    IN  IF channelCf \in DOMAIN s.channels
        THEN Emit(s, [type |-> "SelfJoin", Channel |-> s.channels[channelCf].Name])
        ELSE s

\* c.Topic is set on a copy of the Channel and is lost
handleTopic(s, m) == s

handlePrivmsg(s, m) == Emit(s, privmsgToEvent(s, m))

TypingState(v) ==
    CASE v = "active" -> "TypingActive"
      [] v = "paused" -> "TypingPaused"
      [] v = "done" -> "TypingDone"
      [] OTHER -> "TypingUnspec"

handleTagmsg(s, m) ==
    LET nk == FullMask(m.prefix)[1]
        nkCf == ToLower(nk)
        targetCf == ToLower(m.params[1])
    IN  IF nkCf = s.nickCf \/ ~HasTag(m, "+typing") THEN s
        ELSE IF targetCf = s.nickCf
        THEN Emit(s, [type |-> "QueryTag", Nick |-> nk,
                      Typing |-> TypingState(Tag(m, "+typing")), Time |-> TimeOf(s, m)])
        ELSE IF targetCf \in DOMAIN s.channels
        THEN Emit(s, [type |-> "ChannelTag", Nick |-> nk,
                      Channel |-> s.channels[targetCf].Name,
                      Typing |-> TypingState(Tag(m, "+typing")), Time |-> TimeOf(s, m)])
        ELSE s

handleBatch(s, m) ==
    LET id == BatchId(m.params[1])
    IN  IF BatchStart(m.params[1]) /\ m.params[2] = "chathistory"
        THEN [s EXCEPT !.chBatches =
                           MapPut(@, id, [Target |-> m.params[3], Messages |-> <<>>])]
        ELSE IF id \in DOMAIN s.chBatches
        THEN [Emit(s, [type |-> "History", Target |-> s.chBatches[id].Target,
                       Messages |-> s.chBatches[id].Messages])
                 EXCEPT !.chBatches = MapDel(@, id)]
        ELSE s

\* the member maps are left as they are ("TODO update state")
handleNick(s, m) ==
    LET nk == FullMask(m.prefix)[1]
        nkCf == ToLower(nk)
        newNick == m.params[1]
    IN  IF nkCf = s.nickCf
        THEN [Emit(s, [type |-> "SelfNick", FormerNick |-> s.nick, NewNick |-> newNick,
                       Time |-> TimeOf(s, m)])
                 EXCEPT !.nick = newNick, !.nickCf = ToLower(newNick)]
        ELSE Emit(s, [type |-> "UserNick", FormerNick |-> nk, NewNick |-> newNick,
                      Time |-> TimeOf(s, m)])

handlePing(s, m) == send(s, <<"PONG :" \o m.params[1]>>)

handleError(s, m) ==
    [s EXCEPT !.err = IF Len(m.params) > 0
                      THEN "connection terminated: " \o m.params[1]
                      ELSE "connection terminated",
              !.connClosed = TRUE]

handle(s, m, ord) ==
    IF HasTag(m, "batch") /\ Tag(m, "batch") \in DOMAIN s.chBatches
    THEN handleBatched(s, m)
    ELSE CASE m.cmd = rplWelcome -> handleWelcome(s, m)
           [] m.cmd = rplWhoreply -> handleWhoreply(s, m)
           [] m.cmd = "CAP" -> handleCap(s, m)
           [] m.cmd = "JOIN" -> handleJoin(s, m)
           [] m.cmd = "PART" -> handlePart(s, m)
           [] m.cmd = "QUIT" -> handleQuit(s, m, ord)
           [] m.cmd = rplNamreply -> handleNamreply(s, m)
           [] m.cmd = rplEndofnames -> handleEndofnames(s, m)
           [] m.cmd = rplTopic -> handleTopic(s, m)
           [] m.cmd \in {"PRIVMSG", "NOTICE"} -> handlePrivmsg(s, m)
           [] m.cmd = "TAGMSG" -> handleTagmsg(s, m)
           [] m.cmd = "BATCH" -> handleBatch(s, m)
           [] m.cmd = "NICK" -> handleNick(s, m)
           [] m.cmd = "PING" -> handlePing(s, m)
           [] m.cmd = "ERROR" -> handleError(s, m)
           [] OTHER -> s

(***************************************************************************)
(* Session.handleStart.                                                    *)
(***************************************************************************)
handleStartAuthenticate(s, m) ==
    IF ~s.auth.ok THEN s
    ELSE LET r == Respond(s.auth, m.params[1])
         IN  IF r.err THEN send(s, <<"AUTHENTICATE *">>)
             ELSE send(s, <<"AUTHENTICATE " \o r.res>>)

handleStartLoggedin(s, m) ==
    LET s1 == send(s, <<"CAP END">>)
    IN  IF s1.err # "" THEN s1
        ELSE [s1 EXCEPT !.acct = m.params[3], !.host = FullMask(m.params[2])[3]]

handleStartSaslError(s, m) == send(s, <<"CAP END">>)

\* Params[2] == "*" marks a line of the list that is not the last
WillContinue(m) == Len(m.params) >= 3 /\ m.params[3] = "*"

\* handleStartLS that ends the negotiation whatever the list and the credentials
handleStartLS_AlwaysEnd(s, m, ord) ==
    LET s1 == [s EXCEPT !.availableCaps = ApplyCaps(@, TokenizeCaps(m.list))]
        wanted == SelectSeq(ord, LAMBDA c : c \in SupportedCapabilities)
        req == [i \in 1..Len(wanted) |-> "CAP REQ " \o wanted[i]]
    IN  IF WillContinue(m) THEN s1 ELSE send(s1, req \o <<"CAP END">>)

\* handleStartLS that requests every available capability, supported or not
handleStartLS_Unfiltered(s, m, ord) ==
    LET s1 == [s EXCEPT !.availableCaps = ApplyCaps(@, TokenizeCaps(m.list))]
        req == [i \in 1..Len(ord) |-> "CAP REQ " \o ord[i]]
        end == IF ~s.auth.ok \/ "sasl" \notin s1.availableCaps THEN <<"CAP END">> ELSE <<>>
    IN  IF WillContinue(m) THEN s1 ELSE send(s1, req \o end)

\* ord: the order in which the range over s.availableCaps visits the names
handleStartLS(s, m, ord) ==
    LET s1 == [s EXCEPT !.availableCaps = ApplyCaps(@, TokenizeCaps(m.list))]
        wanted == SelectSeq(ord, LAMBDA c : c \in SupportedCapabilities)
        req == [i \in 1..Len(wanted) |-> "CAP REQ " \o wanted[i]]
        end == IF ~s.auth.ok \/ "sasl" \notin s1.availableCaps THEN <<"CAP END">> ELSE <<>>
    IN  IF WillContinue(m) THEN s1 ELSE send(s1, req \o end)

handleStartAck(s, m) == AckStart(s, SplitCaps(m.list))

handleStartNickInUse(s, m) ==
    LET s1 == [s EXCEPT !.nick = @ \o "_"]
    IN  send(s1, <<"NICK " \o s1.nick>>)

handleStart(s, m, ord) ==
    CASE m.cmd = "AUTHENTICATE" -> handleStartAuthenticate(s, m)
      [] m.cmd = rplLoggedin -> handleStartLoggedin(s, m)
      [] m.cmd \in SaslErrors -> handleStartSaslError(s, m)
      [] m.cmd = "CAP" ->
            (CASE m.params[2] = "LS" -> handleStartLS(s, m, ord)
               [] m.params[2] = "ACK" -> handleStartAck(s, m)
               [] OTHER -> s)
      [] m.cmd = errNicknameinuse -> handleStartNickInUse(s, m)
      [] OTHER -> handle(s, m, ord)

\* the keys of the map the handler of m ranges over, if it ranges over one
RangedKeys(s, m) ==
    IF ~s.registered /\ m.cmd = "CAP" /\ m.params[2] = "LS" /\ ~WillContinue(m)
    THEN ApplyCaps(s.availableCaps, TokenizeCaps(m.list))
    ELSE IF m.cmd = "QUIT" /\ ~(HasTag(m, "batch") /\ Tag(m, "batch") \in DOMAIN s.chBatches)
    THEN DOMAIN s.channels
    ELSE {}

(***************************************************************************)
(* The actions of the run loop's switch.                                   *)
(***************************************************************************)
\* seconds between two typing notices for one target
TypingInterval == 3

sendRaw(s, act) == send(s, <<act.raw>>)

join(s, act) == send(s, <<"JOIN " \o act.Channel>>)

part(s, act) == send(s, <<"PART " \o act.Channel>>)

privMsg(s, act) == send(s, <<"PRIVMSG " \o act.Target \o " :" \o act.Content>>)

\* typing that keeps its stamps under the target as given, not case-folded
typing_NoFold(s, act) ==
    LET to == act.Channel
    IN  IF "message-tags" \notin s.enabledCaps THEN s
        ELSE IF to \in DOMAIN s.typingStamps /\ s.now - s.typingStamps[to] < TypingInterval
        THEN s
        ELSE send([s EXCEPT !.typingStamps = MapPut(@, to, s.now)],
                  <<"@+typing=active TAGMSG " \o act.Channel>>)

typing(s, act) ==
    LET to == ToLower(act.Channel)
    IN  IF "message-tags" \notin s.enabledCaps THEN s
        ELSE IF to \in DOMAIN s.typingStamps /\ s.now - s.typingStamps[to] < TypingInterval
        THEN s
        ELSE send([s EXCEPT !.typingStamps = MapPut(@, to, s.now)],
                  <<"@+typing=active TAGMSG " \o act.Channel>>)

typingStop(s, act) ==
    IF "message-tags" \notin s.enabledCaps THEN s
    ELSE send(s, <<"@+typing=done TAGMSG " \o act.Channel>>)

\* the timestamp is written as the number of seconds
requestHistory(s, act) ==
    IF "draft/chathistory" \notin s.enabledCaps THEN s
    ELSE send(s, <<"CHATHISTORY BEFORE " \o act.Target \o " timestamp="
                     \o ToString(act.Before) \o " 100">>)

runAction(s, act) ==
    CASE act.type = "SendRaw" -> sendRaw(s, act)
      [] act.type = "Join" -> join(s, act)
      [] act.type = "Part" -> part(s, act)
      [] act.type = "PrivMsg" -> privMsg(s, act)
      [] act.type = "Typing" -> typing(s, act)
      [] act.type = "TypingStop" -> typingStop(s, act)
      [] act.type = "RequestHistory" -> requestHistory(s, act)
      [] OTHER -> s

\* an iteration of run that drops the error of the handler
reportErr_Dropped(s) == s

\* the end of one iteration of run: a non-nil err goes to s.evts
reportErr(s) == IF s.err # "" THEN Emit(s, ErrorValue(s.err)) ELSE s

(***************************************************************************)
(* The user interface and the orchestrator, as the session specifications  *)
(* start them; their operations are defined with their specifications.     *)
(***************************************************************************)
\* ui.NewBufferList: no buffer, no overlay, current 0
\* (overlay is the empty sequence for nil, or the one overlay buffer)
NewBufferList == [list |-> <<>>, overlay |-> <<>>, current |-> 0, clicked |-> -1, panic |-> FALSE]

\* the zero bound
ZeroBound == [first |-> 0, last |-> 0, firstMessage |-> "", lastMessage |-> ""]

\* App after NewApp.  Of app.messageBounds the model follows one entry: key is
\* its key, hasBounds says that the map holds it and bounds is its value.
\* history and pending belong to the sessions: the history requests made,
\* and the targets with a request that is not answered yet
NewApp ==
    [bounds |-> ZeroBound, hasBounds |-> FALSE, key |-> <<"n1", "">>, readSet |-> <<>>,
     events |-> <<>>, pasting |-> FALSE, exit |-> FALSE, sessions |-> {},
     history |-> <<>>, pending |-> {}]

\* the goroutines of Run and of main before they start: the event loop, the
\* forwarder of user interface events, the network loop, and the two callers
\* of Close (the signal handler and main).  What the event loop did is
\* kept in done (the last thing done, and whether a paste was going on),
\* many (the current burst has handled more than one event), drawn (the draws since
\* the current burst began) and handled (the last event handled of the user
\* interface and of the network)
NewLoop ==
    [pc |-> "top", deadline |-> FALSE, drain |-> FALSE,
     ui |-> [pc |-> "poll", n |-> 0, kind |-> ""],
     irc |-> [pc |-> "top", conn |-> 0, n |-> 0, closed |-> {}],
     stops |-> 0, sig |-> "idle", main |-> "run",
     done |-> [what |-> "", pasting |-> FALSE], many |-> FALSE, drawn |-> 0,
     handled |-> [ui |-> [src |-> "*", kind |-> "", conn |-> 0, n |-> 0],
                  net |-> [src |-> "n1", kind |-> "", conn |-> 0, n |-> 0]]]

(***************************************************************************)
(* NewSession.                                                             *)
(***************************************************************************)
Params(nickname, username, realname, a, dbg) ==
    [Nickname |-> nickname, Username |-> username, RealName |-> realname,
     Auth |-> a, Debug |-> dbg]

NewSession(p) ==
    send([ auth |-> p.Auth, debug |-> p.Debug, nick |-> p.Nickname,
           nickCf |-> ToLower(p.Nickname), user |-> p.Username, real |-> p.RealName,
           acct |-> "", host |-> "", registered |-> FALSE,
           typingStamps |-> EmptyMap, availableCaps |-> {}, enabledCaps |-> {},
           users |-> EmptyMap, channels |-> EmptyMap, chBatches |-> EmptyMap,
           evts |-> <<>>, out |-> <<>>, connClosed |-> FALSE, wfail |-> FALSE,
           now |-> 0, err |-> "" ],
         << "CAP LS 302", "NICK " \o p.Nickname,
            "USER " \o p.Username \o " 0 * :" \o p.RealName >>)

\* the session NewSession returns for the parameters p, its goroutines started
InitSession(p) ==
    LET s == NewSession(p)
    IN  /\ auth = s.auth
        /\ debug = s.debug
        /\ nick = s.nick
        /\ nickCf = s.nickCf
        /\ user = s.user
        /\ real = s.real
        /\ acct = s.acct
        /\ host = s.host
        /\ running = TRUE
        /\ registered = s.registered
        /\ typingStamps = s.typingStamps
        /\ availableCaps = s.availableCaps
        /\ enabledCaps = s.enabledCaps
        /\ users = s.users
        /\ channels = s.channels
        /\ chBatches = s.chBatches
        /\ msgs = <<>>
        /\ acts = <<>>
        /\ evts = s.evts
        /\ out = s.out
        /\ connClosed = FALSE
        /\ wfail = FALSE
        /\ readerPc = "scan"
        /\ runPc = "check"
        /\ now = 0
        /\ nscan = 0
        /\ srv = [read |-> 0, wire |-> <<>>, sent |-> <<>>, nick |-> "", capEnd |-> FALSE]

\* the program after NewApp and NewSession, before Run
InitWith(p) ==
    /\ InitSession(p)
    /\ bs = NewBufferList
    /\ app = NewApp
    /\ loop = NewLoop

(***************************************************************************)
(* The reader goroutine of NewSession.                                     *)
(***************************************************************************)
\* r.Scan() returns a line that tokenizes and validates to m; it goes to s.msgs
ReaderScan(m) ==
    /\ readerPc = "scan"
    /\ Len(msgs) < MaxQueue
    /\ msgs' = Append(msgs, m)
    /\ evts' = IF debug THEN Append(evts, RawMessageEvent(m, FALSE)) ELSE evts
    /\ nscan' = nscan + 1
    /\ UNCHANGED << auth, debug, bs, app, loop, nick, nickCf, user, real, acct, host, running, registered,
                    typingStamps, availableCaps, enabledCaps, users, channels, chBatches,
                    acts, out, connClosed, wfail, readerPc, runPc, now >>

\* Session.Stop
Stop ==
    /\ running' = FALSE
    /\ connClosed' = TRUE

\* r.Scan() returns false because the server closed the connection or the read failed
ReaderEOF ==
    /\ readerPc = "scan"
    /\ ~connClosed
    /\ Stop
    /\ readerPc' = "done"
    /\ UNCHANGED << auth, debug, bs, app, loop, nick, nickCf, user, real, acct, host, registered,
                    typingStamps, availableCaps, enabledCaps, users, channels, chBatches,
                    msgs, acts, evts, out, wfail, runPc, now, nscan, srv >>

\* r.Scan() returns false because conn was closed by this side
ReaderClosed ==
    /\ readerPc = "scan"
    /\ connClosed
    /\ Stop
    /\ readerPc' = "done"
    /\ UNCHANGED << auth, debug, bs, app, loop, nick, nickCf, user, real, acct, host, registered,
                    typingStamps, availableCaps, enabledCaps, users, channels, chBatches,
                    msgs, acts, evts, out, wfail, runPc, now, nscan, srv >>

(***************************************************************************)
(* Session.run.  runPc is "check" at the loop condition, "select" in the   *)
(* select, "done" after the loop.  The condition is evaluated at the end   *)
(* of the step that handles a message or an action: the handlers do not    *)
(* read or write s.running.                                                *)
(***************************************************************************)
LoopCondition == IF running THEN "select" ELSE "done"

RunCheck ==
    /\ runPc = "check"
    /\ runPc' = LoopCondition
    /\ UNCHANGED << auth, debug, bs, app, loop, nick, nickCf, user, real, acct, host, running, registered,
                    typingStamps, availableCaps, enabledCaps, users, channels, chBatches,
                    msgs, acts, evts, out, connClosed, wfail, readerPc, now, nscan, srv >>

\* case msg := <-s.msgs
RunMsg ==
    /\ runPc = "select"
    /\ msgs # <<>>
    /\ \E ord \in Orderings(RangedKeys(Pack, Head(msgs))) :
          Unpack(reportErr(IF registered THEN handle(Pack, Head(msgs), ord)
                           ELSE handleStart(Pack, Head(msgs), ord)))
    /\ msgs' = Tail(msgs)
    /\ runPc' = LoopCondition
    /\ UNCHANGED <<running, acts, readerPc, nscan>>

\* case act := <-s.acts
RunAct ==
    /\ runPc = "select"
    /\ acts # <<>>
    /\ Unpack(reportErr(runAction(Pack, Head(acts))))
    /\ acts' = Tail(acts)
    /\ runPc' = LoopCondition
    /\ UNCHANGED <<running, msgs, readerPc, nscan>>

(***************************************************************************)
(* The callers of the session and its environment.                         *)
(***************************************************************************)
\* SendRaw, Join, Part, PrivMsg, Typing, TypingStop, RequestHistory: s.acts <- act
Call(act) ==
    /\ Len(acts) < MaxQueue
    /\ acts' = Append(acts, act)
    /\ UNCHANGED << auth, debug, bs, app, loop, nick, nickCf, user, real, acct, host, running, registered,
                    typingStamps, availableCaps, enabledCaps, users, channels, chBatches,
                    msgs, evts, out, connClosed, wfail, readerPc, runPc, now, nscan, srv >>

\* the write side of the connection breaks: conn.Write fails from now on
BreakWrite ==
    /\ ~wfail
    /\ wfail' = TRUE
    /\ UNCHANGED << auth, debug, bs, app, loop, nick, nickCf, user, real, acct, host, running, registered,
                    typingStamps, availableCaps, enabledCaps, users, channels, chBatches,
                    msgs, acts, evts, out, connClosed, readerPc, runPc, now, nscan, srv >>

\* d seconds pass
Tick(d) ==
    /\ now' = now + d
    /\ UNCHANGED << auth, debug, bs, app, loop, nick, nickCf, user, real, acct, host, running, registered,
                    typingStamps, availableCaps, enabledCaps, users, channels, chBatches,
                    msgs, acts, evts, out, connClosed, wfail, readerPc, runPc, nscan, srv >>

(***************************************************************************)
(* Parameters and messages of the specifications.                          *)
(***************************************************************************)
Bytes_bob == <<98, 111, 98>>

Bytes_hunter2 == <<104, 117, 110, 116, 101, 114, 50>>

BobPlain == Params("bob", "bob", "bob", SASLPlain(Bytes_bob, Bytes_hunter2), FALSE)

BobNoAuth == Params("bob", "bob", "bob", NoAuth, FALSE)

CapLS(list) == MsgList("", "CAP", <<"*", "LS">>, list)

CapLSMore(list) == MsgList("", "CAP", <<"*", "LS", "*">>, list)

CapAck(list) == MsgList("", "CAP", <<"*", "ACK">>, list)

Loggedin(n, mask, account) == Msg("", rplLoggedin, <<n, mask, account, "You are now logged in">>)

Welcome(n) == Msg("", rplWelcome, <<n, "welcome">>)

(***************************************************************************)
(* SpecReg: registration against a server that may send any of RegMsgs in  *)
(* any order.                                                              *)
(***************************************************************************)
RegMsgs ==
    { CapLS(<<Cap("message-tags"), Cap("sasl"), Cap("server-time")>>),
      CapLS(<<Cap("server-time"), Cap("foo")>>),
      CapLSMore(<<Cap("sasl"), Cap("foo")>>),
      CapAck(<<Cap("sasl")>>),
      CapAck(<<Cap("message-tags")>>),
      Msg("", "AUTHENTICATE", <<"+">>),
      Loggedin("bob", "bob!bob@example.org", "bob"),
      Msg("", errSaslfail, <<"bob", "SASL authentication failed">>),
      Msg("", errNicknameinuse, <<"*", "bob", "Nickname is already in use">>),
      Welcome("bob") }

InitReg == \E p \in {BobPlain, BobNoAuth} : InitWith(p)

ScanReg ==
    /\ nscan < MaxScanReg
    /\ \E m \in RegMsgs : ReaderScan(m)
    /\ UNCHANGED srv

NextReg == ScanReg \/ RunCheck \/ RunMsg

SpecReg == InitReg /\ [][NextReg]_vars

(***************************************************************************)
(* Vocabulary of the properties.                                           *)
(***************************************************************************)
\* the lines written so far, without the times
Lines == [i \in 1..Len(out) |-> out[i].line]

\* the lines written by the step
NewLines == [i \in 1..(Len(out') - Len(out)) |-> out'[Len(out) + i].line]

Count(q, x) == Cardinality({i \in 1..Len(q) : q[i] = x})

\* the step is the run loop handling the message m
RunsMsg(m) == runPc = "select" /\ msgs # <<>> /\ Head(msgs) = m /\ msgs' = Tail(msgs)

\* the step is the run loop handling the action act
RunsAct(act) == runPc = "select" /\ acts # <<>> /\ Head(acts) = act /\ acts' = Tail(acts)

IsLS(m) == m.cmd = "CAP" /\ m.params[2] = "LS"

ListNames(m) == {m.list[i].name : i \in 1..Len(m.list)}

\* every capability name of the model
CapNames == SupportedCapabilities \cup {"foo"}

(***************************************************************************)
(* C2: CAP END gating.  During registration, the step that handles the     *)
(* last line of the capability list writes no CAP END when sasl is in the  *)
(* list and credentials are configured, and otherwise writes CAP END as    *)
(* the one line after the CAP REQ lines; any other step writes CAP END     *)
(* only when it handles rplLoggedin or a SASL failure numeric, and a SASL  *)
(* failure writes CAP END, sets no account and leaves the session          *)
(* registering.                                                            *)
(***************************************************************************)
C2_Gated(m) ==
    LET lastLS == IsLS(m) /\ ~WillContinue(m)
        pending == auth.ok /\ "sasl" \in availableCaps'
        n == Len(NewLines)
    IN  /\ (lastLS /\ pending) => Count(NewLines, "CAP END") = 0
        /\ (lastLS /\ ~pending) =>
               /\ n >= 1
               /\ NewLines[n] = "CAP END"
               /\ \A i \in 1..(n - 1) : NewLines[i] \in {"CAP REQ " \o c : c \in CapNames}
        /\ Count(NewLines, "CAP END") > 0 =>
               \/ lastLS /\ ~pending
               \/ m.cmd = rplLoggedin
               \/ m.cmd \in SaslErrors
        /\ m.cmd = rplLoggedin => NewLines = <<"CAP END">>
        /\ m.cmd \in SaslErrors =>
               NewLines = <<"CAP END">> /\ acct' = acct /\ ~registered'

C2_CapEndGating ==
    [][\A m \in RegMsgs : (RunsMsg(m) /\ ~registered) => C2_Gated(m)]_vars

\* CAP END was written once, on rplLoggedin, after sasl was requested with credentials
C2_Witness ==
    /\ auth.ok
    /\ Count(Lines, "CAP REQ sasl") = 1
    /\ Count(Lines, "CAP END") = 1
    /\ Lines[Len(Lines)] = "CAP END"
    /\ acct = "bob"

(***************************************************************************)
(* C3: multi-part CAP LS.  During registration every line of the list adds *)
(* its names to the available set and nothing else changes that set; a     *)
(* continued line writes nothing; the last line writes exactly one CAP REQ *)
(* for each name that is available and supported, and no other CAP REQ.    *)
(***************************************************************************)
C3_Requested(m) ==
    /\ IsLS(m) => availableCaps' = availableCaps \cup ListNames(m)
    /\ ~IsLS(m) => availableCaps' = availableCaps
    /\ (IsLS(m) /\ WillContinue(m)) => out' = out
    /\ (IsLS(m) /\ ~WillContinue(m)) =>
           /\ \A c \in CapNames :
                  Count(NewLines, "CAP REQ " \o c) =
                      IF c \in availableCaps' /\ c \in SupportedCapabilities THEN 1 ELSE 0
           /\ \A i \in 1..Len(NewLines) :
                  NewLines[i] \in {"CAP REQ " \o c : c \in CapNames} \cup {"CAP END"}

C3_MultiPartLS ==
    [][\A m \in RegMsgs : (RunsMsg(m) /\ ~registered) => C3_Requested(m)]_vars

\* a continued line offered sasl and foo, the last line server-time and foo
C3_Witness ==
    /\ availableCaps = {"sasl", "foo", "server-time"}
    /\ Count(Lines, "CAP REQ sasl") = 1
    /\ Count(Lines, "CAP REQ server-time") = 1
    /\ Count(Lines, "CAP REQ foo") = 0

(***************************************************************************)
(* SpecHandshake: registration against a server that follows the protocol. *)
(* The server reads the client's lines in order and answers each one:      *)
(* srv.read lines are read, srv.wire holds the answers the reader has not  *)
(* scanned yet, srv.sent every answer so far, srv.nick the nick it has     *)
(* accepted, srv.capEnd whether it has read CAP END.  The nick "Amy" is    *)
(* taken on this server.                                                   *)
(***************************************************************************)
Bytes_amy == <<97, 109, 121>>

Bytes_pw == <<112, 119>>

AmyPlain == Params("Amy", "amy", "Amy A", SASLPlain(Bytes_amy, Bytes_pw), FALSE)

BobPlainDebug == Params("bob", "bob", "bob", SASLPlain(Bytes_bob, Bytes_hunter2), TRUE)

HandshakeParams == {BobPlain, BobPlainDebug, BobNoAuth, AmyPlain}

LSFull == CapLS(<<Cap("message-tags"), Cap("sasl"), Cap("server-time")>>)

\* the capability lists the server may answer CAP LS 302 with
LSAnswers ==
    { <<LSFull>>,
      <<CapLSMore(<<Cap("message-tags"), Cap("foo")>>), CapLS(<<Cap("sasl"), Cap("server-time")>>)>>,
      <<CapLS(<<Cap("server-time"), Cap("foo")>>)>> }

ServerNicks == {"bob", "Amy", "Amy_"}

MaskOf(n) == IF n = "bob" THEN "bob!bob@example.org" ELSE n

WelcomeIf(cond, n) == IF cond THEN <<Welcome(n)>> ELSE <<>>

\* the server's state and answers after reading one client line
ServerAnswers(sv, line) ==
    LET rd == [sv EXCEPT !.read = @ + 1]
    IN  IF line = "CAP LS 302" THEN {[srv |-> rd, ans |-> a] : a \in LSAnswers}
        ELSE IF line = "NICK Amy"
        THEN {[srv |-> rd,
               ans |-> <<Msg("", errNicknameinuse, <<"*", "Amy", "Nickname is already in use">>)>>]}
        ELSE IF \E n \in ServerNicks : line = "NICK " \o n
        THEN LET n == CHOOSE n \in ServerNicks : line = "NICK " \o n
             IN  {[srv |-> [rd EXCEPT !.nick = n], ans |-> WelcomeIf(sv.capEnd, n)]}
        ELSE IF \E c \in CapNames : line = "CAP REQ " \o c
        THEN LET c == CHOOSE c \in CapNames : line = "CAP REQ " \o c
             IN  {[srv |-> rd, ans |-> <<CapAck(<<Cap(c)>>)>>]}
        ELSE IF line = "AUTHENTICATE PLAIN"
        THEN {[srv |-> rd, ans |-> <<Msg("", "AUTHENTICATE", <<"+">>)>>]}
        ELSE IF line \in {"AUTHENTICATE " \o Base64(Bytes_bob \o <<0>> \o Bytes_bob \o <<0>> \o Bytes_hunter2),
                          "AUTHENTICATE " \o Base64(Bytes_amy \o <<0>> \o Bytes_amy \o <<0>> \o Bytes_pw)}
        THEN LET n == IF sv.nick = "" THEN "*" ELSE sv.nick
                 account == IF line = "AUTHENTICATE YW15AGFteQBwdw==" THEN "amy" ELSE "bob"
             IN  {[srv |-> rd, ans |-> <<Loggedin(n, MaskOf(n), account)>>],
                  [srv |-> rd, ans |-> <<Loggedin(n, n, account)>>],
                  [srv |-> rd, ans |-> <<Msg("", errSaslfail, <<n, "SASL authentication failed">>)>>]}
        ELSE IF line = "CAP END"
        THEN {[srv |-> [rd EXCEPT !.capEnd = TRUE], ans |-> WelcomeIf(sv.nick # "", sv.nick)]}
        ELSE IF \E n \in ServerNicks : line = "WHO " \o n
        THEN LET n == CHOOSE n \in ServerNicks : line = "WHO " \o n
             IN  {[srv |-> rd,
                   ans |-> <<Msg("", rplWhoreply,
                                 <<sv.nick, "*", "user", "example.org", "irc.example.org", n, "H", "0 real">>)>>]}
        ELSE {[srv |-> rd, ans |-> <<>>]}

ServerReply ==
    /\ srv.read < Len(out)
    /\ \E r \in ServerAnswers(srv, out[srv.read + 1].line) :
          srv' = [r.srv EXCEPT !.wire = @ \o r.ans, !.sent = @ \o r.ans]
    /\ UNCHANGED << auth, debug, bs, app, loop, nick, nickCf, user, real, acct, host, running, registered,
                    typingStamps, availableCaps, enabledCaps, users, channels, chBatches,
                    msgs, acts, evts, out, connClosed, wfail, readerPc, runPc, now, nscan >>

ScanWire ==
    /\ srv.wire # <<>>
    /\ ReaderScan(Head(srv.wire))
    /\ srv' = [srv EXCEPT !.wire = Tail(@)]

InitHandshake == \E p \in HandshakeParams : InitWith(p)

NextHandshake == ServerReply \/ ScanWire \/ RunCheck \/ RunMsg

SpecHandshake == InitHandshake /\ [][NextHandshake]_vars

(***************************************************************************)
(* C1: the CAP handshake scenario.  The session is bob's with SASL PLAIN   *)
(* bob/hunter2; the server answers CAP LS 302 with the one line            *)
(* "message-tags sasl server-time", acknowledges each request, sends       *)
(* AUTHENTICATE +, then rplLoggedin, then 001, and the client has handled  *)
(* all of it.                                                              *)
(***************************************************************************)
C1_Scenario ==
    /\ auth = SASLPlain(Bytes_bob, Bytes_hunter2)
    /\ user = "bob"
    /\ real = "bob"
    /\ srv.sent # <<>>
    /\ srv.sent[1] = LSFull
    /\ \E i \in 1..Len(srv.sent) : srv.sent[i].cmd = rplLoggedin
    /\ \E i \in 1..Len(srv.sent) : srv.sent[i].cmd = rplWelcome
    /\ srv.read = Len(out)
    /\ srv.wire = <<>>
    /\ msgs = <<>>

Registereds == Cardinality({i \in 1..Len(evts) : evts[i].type = "Registered"})

\* C1 as stated: the nine lines of the scenario, in its order and spelling
C1_AsStated ==
    C1_Scenario =>
        /\ Len(Lines) >= 9
        /\ SubSeq(Lines, 1, 9) =
               << "CAP LS 302", "NICK bob", "USER bob 0 * :bob",
                  "CAP REQ :message-tags", "CAP REQ :sasl", "CAP REQ :server-time",
                  "AUTHENTICATE PLAIN", "AUTHENTICATE Ym9iAGJvYgBodW50ZXIy", "CAP END" >>
        /\ registered
        /\ Registereds = 1

\* C1 amended: the three requests are written as "CAP REQ <name>", in any
\* order, between USER and AUTHENTICATE PLAIN; after CAP END the client
\* writes nothing but "WHO bob", and that only when rplLoggedin named no host
C1_Handshake ==
    C1_Scenario =>
        /\ Len(Lines) \in {9, 10}
        /\ SubSeq(Lines, 1, 3) = <<"CAP LS 302", "NICK bob", "USER bob 0 * :bob">>
        /\ {Lines[4], Lines[5], Lines[6]} =
               {"CAP REQ message-tags", "CAP REQ sasl", "CAP REQ server-time"}
        /\ SubSeq(Lines, 7, 9) =
               <<"AUTHENTICATE PLAIN", "AUTHENTICATE Ym9iAGJvYgBodW50ZXIy", "CAP END">>
        /\ Len(Lines) = 10 => (Lines[10] = "WHO bob" /\ host \in {"", "example.org"})
        /\ (Len(Lines) = 9) = (FullMask((CHOOSE x \in Range(srv.sent) : x.cmd = rplLoggedin).params[2])[3] # "")
        /\ registered
        /\ Registereds = 1

C1_Witness == C1_Scenario /\ registered /\ acct = "bob" /\ Len(Lines) = 9

(***************************************************************************)
(* SpecTyping: Typing calls for three targets, two of which fold to the    *)
(* same name, while the clock advances, before and after message-tags is   *)
(* acknowledged.                                                           *)
(***************************************************************************)
TypingMsgs == {CapAck(<<Cap("message-tags")>>)}

TypingTargets == {"#a", "#A", "#b"}

ActTyping(target) == [type |-> "Typing", Channel |-> target]

InitTyping == InitWith(BobNoAuth)

ScanTyping ==
    /\ nscan < MaxScanTyping
    /\ \E m \in TypingMsgs : ReaderScan(m)
    /\ UNCHANGED srv

CallTyping == \E target \in TypingTargets : Call(ActTyping(target))

TickTyping == now < MaxTime /\ Tick(1)

NextTyping == ScanTyping \/ RunCheck \/ RunMsg \/ RunAct \/ CallTyping \/ TickTyping

SpecTyping == InitTyping /\ [][NextTyping]_vars

TypingLine(target) == "@+typing=active TAGMSG " \o target

\* a notice for a target that folds like target was written less than 3 seconds ago
RecentNotice(target) ==
    \E i \in 1..Len(out) :
        \E u \in TypingTargets :
            /\ ToLower(u) = ToLower(target)
            /\ out[i].line = TypingLine(u)
            /\ now - out[i].at < 3

(***************************************************************************)
(* C4: typing rate limit.  Handling Typing(target) writes the notice       *)
(* "@+typing=active TAGMSG <target>" and nothing else, and writes it       *)
(* exactly when message-tags is enabled and no notice for a target with    *)
(* the same case-folded name was written less than 3 seconds before; so    *)
(* two notices for one folded target are at least 3 seconds apart, and a   *)
(* notice for one target does not hold back another target.                *)
(***************************************************************************)
C4_TypingRateLimit ==
    [][\A target \in TypingTargets :
          RunsAct(ActTyping(target)) =>
              IF "message-tags" \in enabledCaps /\ ~RecentNotice(target)
              THEN NewLines = <<TypingLine(target)>>
              ELSE NewLines = <<>>]_vars

\* #a and #A were both notified (3 seconds apart), and #b within 3 seconds of #a
C4_Witness ==
    \E i, j, k \in 1..Len(out) :
        /\ out[i].line = TypingLine("#a")
        /\ out[j].line = TypingLine("#A")
        /\ out[k].line = TypingLine("#b")
        /\ out[j].at - out[i].at >= 3
        /\ out[k].at - out[i].at \in {0, 1, 2}

(***************************************************************************)
(* SpecChan: channel membership.  bob joins #a and #B, Amy joins, is       *)
(* named, parts, quits and changes nick, bob changes the case of his nick, *)
(* in any order.  With Debug set the reader logs every line it scans as a  *)
(* Raw event on s.evts.                                                    *)
(***************************************************************************)
BobNoAuthDebug == Params("bob", "bob", "bob", NoAuth, TRUE)

Name(n, level) == [Nick |-> n, PowerLevel |-> level]

Endofnames(channel) == Msg("", rplEndofnames, <<"bob", channel, "End of /NAMES list">>)

ChanMsgs ==
    { Msg("bob!bob@example.org", "JOIN", <<"#a">>),
      Msg("bob!bob@example.org", "JOIN", <<"#B">>),
      Msg("Amy!amy@example.org", "JOIN", <<"#a">>),
      MsgList("", rplNamreply, <<"bob", "=", "#a">>, <<Name("Amy", "@"), Name("bob", "")>>),
      MsgList("", rplNamreply, <<"bob", "=", "#b">>, <<Name("Amy", "+")>>),
      Endofnames("#a"),
      Endofnames("#b"),
      Msg("Amy!amy@example.org", "PART", <<"#a">>),
      Msg("Amy!amy@example.org", "QUIT", <<"bye">>),
      Msg("Amy!amy@example.org", "NICK", <<"Cat">>),
      Msg("bob!bob@example.org", "NICK", <<"Bob">>) }

InitChan == \E p \in {BobNoAuth, BobNoAuthDebug} : InitWith(p)

ScanChan ==
    /\ nscan < MaxScanChan
    /\ \E m \in ChanMsgs : ReaderScan(m)
    /\ UNCHANGED srv

NextChan == ScanChan \/ RunCheck \/ RunMsg

SpecChan == InitChan /\ [][NextChan]_vars

\* the nick of the message's prefix, case-folded
PrefixCf(m) == ToLower(FullMask(m.prefix)[1])

\* the channels (by key) of which the user u is a member
ChannelsOf(u) == {c \in DOMAIN channels : u \in DOMAIN channels[c].Members}

LastEvent == evts'[Len(evts')]

(***************************************************************************)
(* C6: QUIT handling.  The step that handles a QUIT emits one event that   *)
(* lists exactly the channels of which the user was a member, and after it *)
(* the user is a member of no channel.                                     *)
(***************************************************************************)
C6_AsStated ==
    [][\A m \in ChanMsgs :
          (RunsMsg(m) /\ m.cmd = "QUIT") =>
              /\ Len(evts') = Len(evts) + 1
              /\ LastEvent.type = "UserPart"
              /\ Len(LastEvent.Channels) = Cardinality(ChannelsOf(PrefixCf(m)))
              /\ Range(LastEvent.Channels) = {channels[c].Name : c \in ChannelsOf(PrefixCf(m))}
              /\ \A c \in DOMAIN channels' : PrefixCf(m) \notin DOMAIN channels'[c].Members]_vars

(***************************************************************************)
(* C7: NICK handling.  The step that handles a NICK of another user moves  *)
(* the member entry of the former nick, in every channel that has one, to  *)
(* the new case-folded nick with the same power level, and emits UserNick; *)
(* a NICK of the session's own nick sets nick and nickCf and emits         *)
(* SelfNick.                                                               *)
(***************************************************************************)
C7_AsStated ==
    [][\A m \in ChanMsgs :
          (RunsMsg(m) /\ m.cmd = "NICK") =>
              LET former == PrefixCf(m)
                  newCf == ToLower(m.params[1])
              IN  /\ Len(evts') = Len(evts) + 1
                  /\ IF former = nickCf
                     THEN /\ nick' = m.params[1]
                          /\ nickCf' = newCf
                          /\ LastEvent.type = "SelfNick"
                     ELSE /\ LastEvent.type = "UserNick"
                          /\ \A c \in ChannelsOf(former) :
                                 /\ newCf \in DOMAIN channels'[c].Members
                                 /\ channels'[c].Members[newCf] = channels[c].Members[former]
                                 /\ former # newCf => former \notin DOMAIN channels'[c].Members]_vars

\* own JOINs of the channel with key c that the run loop has handled: the ones the
\* reader has logged less the ones still waiting in s.msgs
OwnJoin(x, c) == x.cmd = "JOIN" /\ PrefixCf(x) = nickCf /\ ToLower(x.params[1]) = c

OwnJoinsHandled(c) ==
    Cardinality({i \in 1..Len(evts) :
                    evts[i].type = "Raw" /\ ~evts[i].Outgoing /\ OwnJoin(evts[i].Incoming, c)})
    - Cardinality({i \in 1..Len(msgs) : OwnJoin(msgs[i], c)})

SelfJoins(c) ==
    Cardinality({i \in 1..Len(evts) : evts[i].type = "SelfJoin" /\ ToLower(evts[i].Channel) = c})

(***************************************************************************)
(* C8: self JOIN.  The step that handles an own JOIN creates the channel   *)
(* entry and emits nothing; the step that handles RPL_ENDOFNAMES emits     *)
(* SelfJoin for the channel when the channel is in the channel map and an  *)
(* own JOIN of it has not had its SelfJoin yet, and nothing otherwise.     *)
(* (Stated on sessions with Debug set, whose event stream logs the JOINs.) *)
(***************************************************************************)
C8_AsStated ==
    [][\A m \in ChanMsgs :
          (debug /\ RunsMsg(m)) =>
              /\ (m.cmd = "JOIN" /\ PrefixCf(m) = nickCf) =>
                     /\ ToLower(m.params[1]) \in DOMAIN channels'
                     /\ evts' = evts
              /\ m.cmd = rplEndofnames =>
                     LET c == ToLower(m.params[2])
                     IN  IF c \in DOMAIN channels /\ SelfJoins(c) < OwnJoinsHandled(c)
                         THEN evts' = Append(evts, [type |-> "SelfJoin", Channel |-> channels[c].Name])
                         ELSE evts' = evts]_vars

(***************************************************************************)
(* SpecBatch: chat history.  The server opens and closes the batches b1    *)
(* (history of #a) and b2 (history of the query with Amy) and sends        *)
(* messages inside and outside of them, in any order; bob may or may not   *)
(* have joined #a.                                                         *)
(***************************************************************************)
Privmsg(target, content) == Msg("Amy!amy@example.org", "PRIVMSG", <<target, content>>)

InBatch(m, id) == Tagged(m, "batch", id)

BatchMsgs ==
    { Msg("", "BATCH", <<"+b1", "chathistory", "#a">>),
      Msg("", "BATCH", <<"-b1">>),
      Msg("", "BATCH", <<"+b2", "chathistory", "Amy">>),
      Msg("", "BATCH", <<"-b2">>),
      InBatch(Privmsg("#a", "one"), "b1"),
      InBatch(Privmsg("#a", "two"), "b1"),
      InBatch(Privmsg("bob", "three"), "b2"),
      Privmsg("bob", "four"),
      Msg("bob!bob@example.org", "JOIN", <<"#a">>) }

InitBatch == InitWith(BobNoAuth)

ScanBatch ==
    /\ nscan < MaxScanBatch
    /\ \E m \in BatchMsgs : ReaderScan(m)
    /\ UNCHANGED srv

NextBatch == ScanBatch \/ RunCheck \/ RunMsg

SpecBatch == InitBatch /\ [][NextBatch]_vars

\* the entry of a History event that holds the message m
Holds(entry, m) ==
    /\ entry.type \in {"ChannelMessage", "QueryMessage"}
    /\ entry.Nick = FullMask(m.prefix)[1]
    /\ entry.Command = m.cmd
    /\ entry.Content = m.params[2]

\* the message is routed into the open batch id
RoutedInto(m, id) == HasTag(m, "batch") /\ Tag(m, "batch") = id /\ id \in DOMAIN chBatches

(***************************************************************************)
(* C5: history batches are atomic and ordered.  A message tagged with an   *)
(* open batch emits nothing and is added at the end of that batch and of   *)
(* no other; BATCH -id for an open id emits one History event with the     *)
(* batch's target and messages and removes the id; BATCH -id for an id     *)
(* that is not open emits nothing; any other message leaves the batches'   *)
(* messages as they are.                                                   *)
(***************************************************************************)
C5_AsStated ==
    [][\A m \in BatchMsgs :
          RunsMsg(m) =>
              IF \E id \in DOMAIN chBatches : RoutedInto(m, id)
              THEN LET id == Tag(m, "batch")
                   IN  /\ evts' = evts
                       /\ DOMAIN chBatches' = DOMAIN chBatches
                       /\ Len(chBatches'[id].Messages) = Len(chBatches[id].Messages) + 1
                       /\ SubSeq(chBatches'[id].Messages, 1, Len(chBatches[id].Messages))
                              = chBatches[id].Messages
                       /\ Holds(chBatches'[id].Messages[Len(chBatches'[id].Messages)], m)
                       /\ \A o \in DOMAIN chBatches \ {id} : chBatches'[o] = chBatches[o]
              ELSE IF m.cmd = "BATCH" /\ ~BatchStart(m.params[1])
              THEN LET id == BatchId(m.params[1])
                   IN  IF id \in DOMAIN chBatches
                       THEN /\ evts' = Append(evts, [type |-> "History",
                                                      Target |-> chBatches[id].Target,
                                                      Messages |-> chBatches[id].Messages])
                            /\ chBatches' = MapDel(chBatches, id)
                       ELSE evts' = evts /\ chBatches' = chBatches
              ELSE \A id \in DOMAIN chBatches :
                       m.cmd = "BATCH" \/ (id \in DOMAIN chBatches' /\ chBatches'[id] = chBatches[id])]_vars

(***************************************************************************)
(* SpecRun: the run loop on a connection that can break.  The server sends *)
(* PING, ERROR and private messages, the caller joins #a, the write side   *)
(* can break at any moment and the read side can reach EOF.  The           *)
(* goroutines of the session are scheduled fairly; the server and the      *)
(* caller are under no obligation.                                         *)
(***************************************************************************)
Ping == Msg("", "PING", <<"tok">>)

ErrorMsg == Msg("", "ERROR", <<"bye">>)

RunMsgs == {Ping, ErrorMsg, Privmsg("bob", "four")}

ActJoin(channel) == [type |-> "Join", Channel |-> channel]

InitRun == \E p \in {BobNoAuth, BobNoAuthDebug} : InitWith(p)

ScanRun ==
    /\ nscan < MaxScanRun
    /\ \E m \in RunMsgs : ReaderScan(m)
    /\ UNCHANGED srv

CallRun == Len(out) + Len(evts) < MaxWritten /\ Call(ActJoin("#a"))

NextRun ==
    ScanRun \/ CallRun \/ RunCheck \/ RunMsg \/ RunAct \/ BreakWrite \/ ReaderEOF \/ ReaderClosed

SpecRun ==
    /\ InitRun
    /\ [][NextRun]_vars
    /\ WF_vars(RunCheck) /\ WF_vars(RunMsg) /\ WF_vars(RunAct) /\ WF_vars(ReaderClosed)

WriteFailed == ErrorValue("write failed")

Terminated == ErrorValue("connection terminated: bye")

\* conn.Write fails: the write side is broken or conn is closed
WriteFails == wfail \/ connClosed

\* the loop is back at its condition, which only Running() decides
LoopGoesOn == running' = running /\ runPc' = (IF running THEN "select" ELSE "done")

Fatal == readerPc = "done" \/ WriteFailed \in Range(evts) \/ Terminated \in Range(evts)

(***************************************************************************)
(* C10: connection-fatal errors close the session.  After the read side    *)
(* ends, a write fails or the server sends ERROR, the session reaches the  *)
(* closed state: Running() is false and the loop has stopped; and          *)
(* Running() never becomes true again.                                     *)
(***************************************************************************)
C10_AsStated ==
    /\ Fatal ~> (~running /\ runPc = "done")
    /\ [][~running => ~running']_vars

(***************************************************************************)
(* SpecCaps: capability deltas.  After rplWelcome the server announces new *)
(* capabilities and withdraws capabilities, in any order; foo is a         *)
(* capability the client does not support.  Writes succeed.                *)
(***************************************************************************)
CapNew(list) == MsgList("", "CAP", <<"bob", "NEW">>, list)

CapDel(list) == MsgList("", "CAP", <<"bob", "DEL">>, list)

CapsMsgs ==
    { Welcome("bob"),
      CapNew(<<Cap("message-tags"), Cap("foo")>>),
      CapNew(<<Cap("foo")>>),
      CapNew(<<Cap("server-time"), Cap("foo"), Cap("sasl")>>),
      CapDel(<<Cap("message-tags")>>),
      CapDel(<<Cap("foo"), Cap("sasl")>>) }

InitCaps == InitWith(BobNoAuth)

ScanCaps ==
    /\ nscan < MaxScanCaps
    /\ \E m \in CapsMsgs : ReaderScan(m)
    /\ UNCHANGED srv

NextCaps == ScanCaps \/ RunCheck \/ RunMsg

SpecCaps == InitCaps /\ [][NextCaps]_vars

IsCap(m, sub) == m.cmd = "CAP" /\ m.params[2] = sub

\* the listed capabilities that the client supports
ListedSupported(m) == ListNames(m) \cap SupportedCapabilities

(***************************************************************************)
(* C11: capability deltas after registration.  Handling CAP NEW adds the   *)
(* listed names to the available set and writes one CAP REQ for each       *)
(* listed name that is supported and nothing else; handling CAP DEL        *)
(* removes the listed names from the available set and writes nothing.     *)
(***************************************************************************)
C11_CapDeltas ==
    [][\A m \in CapsMsgs :
          (RunsMsg(m) /\ registered) =>
              /\ IsCap(m, "NEW") =>
                     /\ availableCaps' = availableCaps \cup ListNames(m)
                     /\ Len(NewLines) = Cardinality(ListedSupported(m))
                     /\ \A c \in ListedSupported(m) : Count(NewLines, "CAP REQ " \o c) = 1
              /\ IsCap(m, "DEL") =>
                     /\ availableCaps' = availableCaps \ ListNames(m)
                     /\ NewLines = <<>>]_vars

\* server-time, foo and sasl were announced, then foo and sasl withdrawn
C11_Witness ==
    /\ registered
    /\ availableCaps = {"server-time"}
    /\ Count(Lines, "CAP REQ server-time") = 1
    /\ Count(Lines, "CAP REQ sasl") = 1
    /\ Count(Lines, "CAP REQ foo") = 0

(***************************************************************************)
(* ui.BufferList.  A buffer is a record of its netID, netName, title,      *)
(* highlights, unread, read marker and lines; bs.current is the code's     *)
(* index, counted from 0.  A Go panic (index out of range, division by     *)
(* zero) sets bs.panic and the program does nothing more.  The wrap cache, *)
(* the scroll position and the URL styling of a line are not part of this  *)
(* model of the list.                                                      *)
(***************************************************************************)
\* the strings of the model in the byte order that Go's < compares them by
Collation == <<"", "#a", "#b", "(home)", "amy", "libera", "oftc">>

Rank(str) == CHOOSE i \in 1..Len(Collation) : Collation[i] = str

StrLess(a, b) == Rank(a) < Rank(b)

Overlay == "/overlay"

Buffer(netID, netName, title) ==
    [netID |-> netID, netName |-> netName, title |-> title,
     highlights |-> 0, unread |-> FALSE, read |-> 0, lines |-> <<>>,
     scrollAmt |-> 0, isAtTop |-> FALSE]

Panic(b) == [b EXCEPT !.panic = TRUE]

\* bs.list[i] for the code's index i, which panics outside of the list
InList(b, i) == 0 <= i /\ i < Len(b.list)

\* b.highlights = 0; b.unread = false on bs.list[bs.current]
Focus(b) ==
    IF ~InList(b, b.current) THEN Panic(b)
    ELSE [b EXCEPT !.list[b.current + 1].highlights = 0,
                   !.list[b.current + 1].unread = FALSE]

\* BufferList.To; .ok is the returned bool
To(b, i) ==
    LET b1 == [b EXCEPT !.overlay = <<>>]
    IN  IF i = b.current THEN [bs |-> b1, ok |-> FALSE]
        ELSE IF 0 <= i
        THEN [bs |-> Focus([b1 EXCEPT !.current = IF Len(b.list) <= i THEN Len(b.list) - 1
                                                  ELSE i]),
              ok |-> TRUE]
        ELSE [bs |-> b1, ok |-> FALSE]

\* BufferList.Next: the remainder by len(bs.list) panics on an empty list
Next(b) ==
    LET b1 == [b EXCEPT !.overlay = <<>>]
    IN  IF Len(b.list) = 0 THEN Panic(b1)
        ELSE Focus([b1 EXCEPT !.current = (b.current + 1) % Len(b.list)])

\* BufferList.Previous; Go's % keeps the sign of a negative dividend
Previous(b) ==
    LET b1 == [b EXCEPT !.overlay = <<>>]
        n == Len(b.list)
        d == b.current - 1 + n
    IN  IF n = 0 THEN Panic(b1)
        ELSE Focus([b1 EXCEPT !.current = IF d >= 0 THEN d % n ELSE -((-d) % n)])

\* the loop of BufferList.Add from buffer bi on: the insertion index, whether the
\* pair was found, and the network name, which an empty argument takes from a
\* buffer of the same netID
RECURSIVE AddScan(_, _, _, _, _, _)
AddScan(list, bi, i, netID, netName, lTitle) ==
    IF bi > Len(list) THEN [i |-> i, found |-> FALSE, netName |-> netName]
    ELSE LET bf == list[bi]
             nn == IF netName = "" /\ bf.netID = netID THEN bf.netName ELSE netName
             lbTitle == ToLower(bf.title)
         IN  IF nn = "" \/ StrLess(bf.netName, nn)
             THEN AddScan(list, bi + 1, bi, netID, nn, lTitle)
             ELSE IF StrLess(nn, bf.netName)
             THEN [i |-> i, found |-> FALSE, netName |-> nn]
             ELSE IF StrLess(lbTitle, lTitle)
             THEN AddScan(list, bi + 1, bi, netID, nn, lTitle)
             ELSE [i |-> i, found |-> lbTitle = lTitle, netName |-> nn]

InsertAt(list, i, x) == SubSeq(list, 1, i) \o <<x>> \o SubSeq(list, i + 1, Len(list))

\* Add that leaves current where it is
Add_NoShift(b, netID, netName, title) ==
    LET r == AddScan(b.list, 1, 0, netID, netName, ToLower(title))
    IN  IF r.found THEN [bs |-> b, i |-> r.i, added |-> FALSE]
        ELSE [bs |-> [b EXCEPT !.list = InsertAt(b.list, r.i, Buffer(netID, r.netName, title))],
              i |-> r.i, added |-> TRUE]

\* BufferList.Add; .i and .added are the returned values
Add(b, netID, netName, title) ==
    LET r == AddScan(b.list, 1, 0, netID, netName, ToLower(title))
    IN  IF r.found THEN [bs |-> b, i |-> r.i, added |-> FALSE]
        ELSE [bs |-> [b EXCEPT !.current = IF r.i <= b.current /\ b.current < Len(b.list)
                                            THEN b.current + 1 ELSE b.current,
                                !.list = InsertAt(b.list, r.i, Buffer(netID, r.netName, title))],
              i |-> r.i, added |-> TRUE]

\* BufferList.at: the code's index of the buffer, -1 when there is none
\* (the overlay is looked up with netID "" and title Overlay)
IsOverlay(netID, title) == netID = "" /\ title = Overlay

at(b, netID, title) ==
    LET hits == {i \in 1..Len(b.list) :
                    b.list[i].netID = netID /\ ToLower(b.list[i].title) = ToLower(title)}
    IN  IF IsOverlay(netID, title) \/ hits = {} THEN -1
        ELSE (CHOOSE i \in hits : \A j \in hits : i <= j) - 1

RemoveAt(list, idx) == SubSeq(list, 1, idx) \o SubSeq(list, idx + 2, Len(list))

\* BufferList.Remove; .ok is the returned bool
Remove(b, netID, title) ==
    LET idx == at(b, netID, title)
    IN  IF IsOverlay(netID, title) THEN [bs |-> [b EXCEPT !.overlay = <<>>], ok |-> FALSE]
        ELSE IF idx < 0 THEN [bs |-> b, ok |-> FALSE]
        ELSE [bs |-> [b EXCEPT !.list = RemoveAt(b.list, idx),
                                !.current = IF Len(b.list) - 1 <= b.current
                                            THEN b.current - 1 ELSE b.current],
              ok |-> TRUE]

(***************************************************************************)
(* Lines.  A line is a record of At (seconds), Body, Mergeable, Readable,  *)
(* Highlight and Data (the events a mergeable line stands for).            *)
(***************************************************************************)
Line(atT, body, mergeable, readable, highlight, data) ==
    [At |-> atT, Body |-> body, Mergeable |-> mergeable, Readable |-> readable,
     Highlight |-> highlight, Data |-> data]

\* the events of mergeable lines
UserJoinEvent(u) == [type |-> "UserJoin", User |-> u]

UserPartEvent(u) == [type |-> "UserPart", User |-> u]

UserQuitEvent(u) == [type |-> "UserQuit", User |-> u]

UserNickEvent(former, u) == [type |-> "UserNick", User |-> u, FormerNick |-> former]

\* Mode is "<+/-><mode> <nick>", kept as its two words
ModeChangeEvent(mode, u) == [type |-> "ModeChange", Mode |-> <<mode, u>>]

\* the Body of App.formatEvent (the arrow of a nick change is written "->")
EventBody(ev) ==
    CASE ev.type = "UserJoin" -> "+" \o ev.User
      [] ev.type \in {"UserPart", "UserQuit"} -> "-" \o ev.User
      [] ev.type = "UserNick" -> ev.FormerNick \o "->" \o ev.User
      [] ev.type = "ModeChange" -> "[" \o ev.Mode[1] \o " " \o ev.Mode[2] \o "]"
      [] OTHER -> ""

\* App.formatEvent for the mergeable events
formatEvent(ev, atT) == Line(atT, EventBody(ev), TRUE, TRUE, FALSE, <<ev>>)

(***************************************************************************)
(* App.mergeLine.  st.flows maps a case-folded user to the number of its   *)
(* flow in st.objs (the code shares one *flow between keys), st.ef is      *)
(* eventFlows with 0 for nil.                                              *)
(***************************************************************************)
NewFlow(st, userCf, state) ==
    [flows |-> MapPut(st.flows, userCf, Len(st.objs) + 1),
     objs |-> Append(st.objs, [hide |-> FALSE, state |-> state]),
     ef |-> Append(st.ef, Len(st.objs) + 1)]

\* a toggle that hides the flow of a user who is back but keeps it in flows
FlowToggle_KeepFlow(st, userCf, back) ==
    IF userCf \in DOMAIN st.flows
    THEN LET f == st.flows[userCf]
         IN  IF st.objs[f].state = back
             THEN [flows |-> st.flows,
                   objs |-> [st.objs EXCEPT ![f].hide = TRUE],
                   ef |-> Append(st.ef, 0)]
             ELSE [st EXCEPT !.ef = Append(@, 0)]
    ELSE NewFlow(st, userCf, -back)

\* UserJoinEvent (back == -1) and UserPartEvent / UserQuitEvent (back == 1)
FlowToggle(st, userCf, back) ==
    IF userCf \in DOMAIN st.flows
    THEN LET f == st.flows[userCf]
         IN  IF st.objs[f].state = back
             THEN [flows |-> MapDel(st.flows, userCf),
                   objs |-> [st.objs EXCEPT ![f].hide = TRUE],
                   ef |-> Append(st.ef, 0)]
             ELSE [st EXCEPT !.ef = Append(@, 0)]
    ELSE NewFlow(st, userCf, -back)

FlowStep(st, ev) ==
    CASE ev.type = "UserNick" ->
            LET userCf == ToLower(ev.User)
                formerCf == ToLower(ev.FormerNick)
            IN  IF formerCf \in DOMAIN st.flows
                THEN [st EXCEPT !.flows = MapDel(MapPut(@, userCf, st.flows[formerCf]), formerCf),
                                !.ef = Append(@, st.flows[formerCf])]
                ELSE NewFlow(st, userCf, 0)
      [] ev.type = "UserJoin" -> FlowToggle(st, ToLower(ev.User), -1)
      [] ev.type \in {"UserPart", "UserQuit"} -> FlowToggle(st, ToLower(ev.User), 1)
      [] ev.type = "ModeChange" ->
            LET userCf == ToLower(ev.Mode[2])
            IN  IF userCf \in DOMAIN st.flows
                THEN [st EXCEPT !.ef = Append(@, st.flows[userCf])]
                ELSE NewFlow(st, userCf, 0)
      [] OTHER -> [st EXCEPT !.ef = Append(@, 0)]

RECURSIVE Flows(_, _)
Flows(st, events) ==
    IF events = <<>> THEN st ELSE Flows(FlowStep(st, Head(events)), Tail(events))

\* the bodies of the events that are shown, two spaces between them
RECURSIVE MergedBody(_, _, _, _)
MergedBody(events, st, i, acc) ==
    IF i > Len(events) THEN acc
    ELSE IF st.ef[i] = 0 \/ st.objs[st.ef[i]].hide
    THEN MergedBody(events, st, i + 1, acc)
    ELSE MergedBody(events, st, i + 1,
                    IF acc.first THEN [first |-> FALSE, body |-> EventBody(events[i])]
                    ELSE [acc EXCEPT !.body = @ \o "  " \o EventBody(events[i])])

\* App.mergeLine: the former line with the new Body and Data
doMergeLine(former, addition) ==
    LET events == former.Data \o addition.Data
        st == Flows([flows |-> EmptyMap, objs |-> <<>>, ef |-> <<>>], events)
    IN  [former EXCEPT !.Body = MergedBody(events, st, 1, [first |-> TRUE, body |-> ""]).body,
                       !.Data = events]

\* BufferList.mergeLine: keepLine is the merged Body not being empty
KeepLine(merged) == merged.Body # ""

(***************************************************************************)
(* BufferList.AddLine, AddLines and SetRead.  A buffer is designated by 0  *)
(* for the overlay and by its position in the list otherwise; -1 is the    *)
(* nil that BufferList.at returns.                                         *)
(***************************************************************************)
NotifyNone == "None"

NotifyUnread == "Unread"

NotifyHighlight == "Highlight"

\* the *buffer of BufferList.at
Target(b, netID, title) ==
    IF IsOverlay(netID, title) THEN (IF b.overlay = <<>> THEN -1 ELSE 0)
    ELSE IF at(b, netID, title) < 0 THEN -1
    ELSE at(b, netID, title) + 1

\* the *buffer of BufferList.cur, -1 where the code panics
Cur(b) ==
    IF b.overlay # <<>> THEN 0
    ELSE IF InList(b, b.current) THEN b.current + 1
    ELSE -1

GetBuf(b, tgt) == IF tgt = 0 THEN b.overlay[1] ELSE b.list[tgt]

SetBuf(b, tgt, buf) ==
    IF tgt = 0 THEN [b EXCEPT !.overlay = <<buf>>] ELSE [b EXCEPT !.list[tgt] = buf]

\* the red "---" line
Separator(nowT) == Line(nowT, "---", FALSE, FALSE, FALSE, <<>>)

\* len(line.NewLines(bs.tlInnerWidth)) + 1: the lines of the model fit one row
Rows(line) == 1

\* the body of AddLine on the buffer buf; n is len(b.lines) at the call
AddLineTo(buf, isCurrent, notify, line, nowT) ==
    LET n == Len(buf.lines)
        b1 == IF notify # NotifyNone /\ ~isCurrent /\ ~buf.unread
              THEN [buf EXCEPT !.lines = Append(@, Separator(nowT)), !.unread = TRUE]
              ELSE buf
        b2 == IF line.Mergeable /\ n # 0 /\ b1.lines[n].Mergeable
              THEN LET merged == doMergeLine(b1.lines[n], line)
                   IN  IF KeepLine(merged) THEN [b1 EXCEPT !.lines[n] = merged]
                       ELSE [b1 EXCEPT !.lines = SubSeq(@, 1, n - 1)]
              ELSE [b1 EXCEPT !.lines = Append(@, line),
                              !.scrollAmt = IF isCurrent /\ 0 < @ THEN @ + Rows(line) ELSE @]
    IN  IF notify = NotifyHighlight /\ ~isCurrent
        THEN [b2 EXCEPT !.highlights = @ + 1]
        ELSE b2

\* AddLine that counts a highlight on the current buffer too
AddLine_CountCurrent(b, netID, title, notify, line, nowT) ==
    LET tgt == Target(b, netID, title)
    IN  IF tgt = -1 THEN b
        ELSE IF Cur(b) = -1 THEN Panic(b)
        ELSE SetBuf(b, tgt, AddLineTo(GetBuf(b, tgt), FALSE, notify, line, nowT))

AddLine(b, netID, title, notify, line, nowT) ==
    LET tgt == Target(b, netID, title)
    IN  IF tgt = -1 THEN b
        ELSE IF Cur(b) = -1 THEN Panic(b)
        ELSE SetBuf(b, tgt, AddLineTo(GetBuf(b, tgt), tgt = Cur(b), notify, line, nowT))

\* the loop of AddLines over before, b.lines and after
RECURSIVE MergeInto(_, _)
MergeInto(lines, more) ==
    IF more = <<>> THEN lines
    ELSE LET line == Head(more)
             k == Len(lines)
         IN  IF line.Mergeable /\ k > 0 /\ lines[k].Mergeable
             THEN LET merged == doMergeLine(lines[k], line)
                  IN  MergeInto(IF KeepLine(merged) THEN [lines EXCEPT ![k] = merged]
                                ELSE SubSeq(lines, 1, k - 1),
                                Tail(more))
             ELSE MergeInto(Append(lines, line), Tail(more))

AddLines(b, netID, title, before, after) ==
    LET tgt == Target(b, netID, title)
    IN  IF tgt = -1 THEN b
        ELSE LET buf == GetBuf(b, tgt)
             IN  SetBuf(b, tgt, [buf EXCEPT !.lines = MergeInto(<<>>, before \o @ \o after)])

\* the newest Readable line of the buffer, 0 when there is none
LastReadable(buf) ==
    LET rs == {i \in 1..Len(buf.lines) : buf.lines[i].Readable}
    IN  IF rs = {} THEN 0 ELSE CHOOSE i \in rs : \A j \in rs : j <= i

SetRead(b, netID, title, timestamp) ==
    LET tgt == Target(b, netID, title)
    IN  IF tgt = -1 THEN b
        ELSE LET buf == GetBuf(b, tgt)
                 r == LastReadable(buf)
                 b1 == IF r # 0 /\ buf.lines[r].At <= timestamp
                       THEN [buf EXCEPT !.highlights = 0, !.unread = FALSE]
                       ELSE buf
             IN  SetBuf(b, tgt, IF b1.read < timestamp THEN [b1 EXCEPT !.read = timestamp]
                                ELSE b1)

(***************************************************************************)
(* The calls of the user interface on its BufferList, each one step.  The  *)
(* session is left as NewSession made it.                                  *)
(***************************************************************************)
sessionVars ==
    << auth, debug, nick, nickCf, user, real, acct, host, running, registered,
       typingStamps, availableCaps, enabledCaps, users, channels, chBatches,
       msgs, acts, evts, out, connClosed, wfail, readerPc, runPc, now, nscan, srv >>

\* a call that leaves the list as newbs; a program that panicked makes no call
BufferCall(newbs) ==
    /\ ~bs.panic
    /\ bs' = newbs
    /\ UNCHANGED <<sessionVars, app, loop>>

CallAdd(netID, netName, title) == BufferCall(Add(bs, netID, netName, title).bs)

CallRemove(netID, title) == BufferCall(Remove(bs, netID, title).bs)

CallTo(i) == BufferCall(To(bs, i).bs)

CallNext == BufferCall(Next(bs))

CallPrevious == BufferCall(Previous(bs))

CallAddLine(netID, title, notify, line) == BufferCall(AddLine(bs, netID, title, notify, line, now))

CallAddLines(netID, title, before, after) == BufferCall(AddLines(bs, netID, title, before, after))

CallSetRead(netID, title, timestamp) == BufferCall(SetRead(bs, netID, title, timestamp))

\* BufferList.OpenOverlay / CloseOverlay
CallOpenOverlay == BufferCall([bs EXCEPT !.overlay = <<Buffer("", "", Overlay)>>])

CallCloseOverlay == BufferCall([bs EXCEPT !.overlay = <<>>])

(***************************************************************************)
(* SpecList: the structure of the buffer list under any sequence of Add,   *)
(* Remove, To, Next and Previous.  Buffers of two networks are added (with *)
(* and without the network's name, with titles that differ in case only,   *)
(* and with a second name for the network n1) and removed, the focus       *)
(* moves, the overlay opens and closes.                                    *)
(***************************************************************************)
AddArgs ==
    { <<"n1", "libera", "">>, <<"n1", "", "#a">>, <<"n1", "", "#A">>, <<"n1", "", "#B">>,
      <<"n2", "oftc", "">>, <<"n2", "", "#a">>, <<"n1", "oftc", "#a">> }

BufferKeys == {<<"n1", "">>, <<"n1", "#a">>, <<"n1", "#b">>, <<"n2", "">>, <<"n2", "#A">>}

InitList == InitWith(BobNoAuth)

ListAdd == \E a \in AddArgs : Len(bs.list) < MaxBuffers /\ CallAdd(a[1], a[2], a[3])

ListRemove == \E k \in BufferKeys : CallRemove(k[1], k[2])

ListTo == \E i \in -1..MaxBuffers : CallTo(i)

NextList ==
    \/ ListAdd \/ ListRemove \/ ListTo \/ CallNext \/ CallPrevious
    \/ CallOpenOverlay \/ CallCloseOverlay

SpecList == InitList /\ [][NextList]_vars

(***************************************************************************)
(* SpecFocus: focus and the unread state.  A home buffer and a channel     *)
(* buffer are added and removed, the focus moves, the overlay opens and    *)
(* closes, lines arrive with every notify hint, history is added and read  *)
(* markers are set.                                                        *)
(***************************************************************************)
FocusArgs == {<<"n1", "libera", "">>, <<"n1", "", "#a">>}

FocusKeys == {<<"n1", "">>, <<"n1", "#A">>}

Notifies == {NotifyNone, NotifyUnread, NotifyHighlight}

\* a message line
TextLine(atT, body) == Line(atT, body, FALSE, TRUE, FALSE, <<>>)

\* the buffer the call is about has room for the lines and highlights of the call
HasRoom(k, extra) ==
    LET tgt == Target(bs, k[1], k[2])
    IN  tgt > 0 =>
            /\ Len(bs.list[tgt].lines) + extra <= MaxLines
            /\ bs.list[tgt].highlights < MaxHighlights

InitFocus == InitWith(BobNoAuth)

FocusAdd ==
    \E a \in FocusArgs : Len(bs.list) < MaxFocusBuffers /\ CallAdd(a[1], a[2], a[3])

FocusRemove == \E k \in FocusKeys : CallRemove(k[1], k[2])

FocusTo == \E i \in 0..1 : CallTo(i)

FocusAddLine ==
    \E k \in FocusKeys, notify \in Notifies :
        HasRoom(k, 2) /\ CallAddLine(k[1], k[2], notify, TextLine(1, "hi"))

FocusAddLines ==
    \E k \in FocusKeys : HasRoom(k, 1) /\ CallAddLines(k[1], k[2], <<TextLine(1, "hi")>>, <<>>)

FocusSetRead == \E k \in FocusKeys, ts \in {0, 1} : CallSetRead(k[1], k[2], ts)

NextFocus ==
    \/ FocusAdd \/ FocusRemove \/ FocusTo \/ CallNext \/ CallPrevious
    \/ FocusAddLine \/ FocusAddLines \/ FocusSetRead \/ CallOpenOverlay \/ CallCloseOverlay

SpecFocus == InitFocus /\ [][NextFocus]_vars

\* the step is the call AddLine(k, notify, line) on the buffer at position tgt
IsAddLine(k, notify, line, tgt) ==
    /\ ~bs.panic /\ ~bs'.panic
    /\ tgt = Target(bs, k[1], k[2])
    /\ tgt > 0
    /\ bs' = AddLine(bs, k[1], k[2], notify, line, now)
    /\ bs' # bs

\* the step is a call of To, Next or Previous that moves the focus to position pos
Focuses(pos) ==
    /\ ~bs.panic /\ ~bs'.panic
    /\ pos = bs'.current + 1
    /\ \/ \E i \in 0..MaxBuffers : i # bs.current /\ bs' = To(bs, i).bs
       \/ bs' = Next(bs)
       \/ bs' = Previous(bs)

C13_AsStated ==
    (~bs.panic /\ InList(bs, bs.current)) =>
        /\ bs.list[bs.current + 1].highlights = 0
        /\ ~bs.list[bs.current + 1].unread

(***************************************************************************)
(* SpecLines: the lines of one channel buffer.  The home buffer and the    *)
(* channel buffer are added, the focus moves between them, and join, part  *)
(* and message lines arrive for the channel with every notify hint.        *)
(***************************************************************************)
LinesKey == <<"n1", "#A">>

MergeLines ==
    {formatEvent(UserJoinEvent("Amy"), 1), formatEvent(UserPartEvent("Amy"), 1),
     formatEvent(UserJoinEvent("Bob"), 1), TextLine(1, "hi")}

InitLines == InitWith(BobNoAuth)

LinesAdd ==
    \E a \in FocusArgs : Len(bs.list) < MaxFocusBuffers /\ CallAdd(a[1], a[2], a[3])

LinesTo == \E i \in 0..1 : CallTo(i)

\* the number of events the lines carry
RECURSIVE Events(_)
Events(lines) ==
    IF lines = <<>> THEN 0 ELSE Len(Head(lines).Data) + Events(Tail(lines))

LinesAddLine ==
    \E notify \in Notifies, line \in MergeLines :
        /\ LET tgt == Target(bs, LinesKey[1], LinesKey[2])
           IN  tgt > 0 =>
                   /\ Len(bs.list[tgt].lines) + 2 <= MaxMergeLines
                   /\ Events(bs.list[tgt].lines) < MaxEvents
                   /\ bs.list[tgt].highlights < MaxHighlights
        /\ CallAddLine(LinesKey[1], LinesKey[2], notify, line)

NextLines == LinesAdd \/ LinesTo \/ LinesAddLine

SpecLines == InitLines /\ [][NextLines]_vars

\* the number of "---" lines among lines
RECURSIVE Separators(_)
Separators(lines) ==
    IF lines = <<>> THEN 0
    ELSE (IF Head(lines).Body = "---" /\ ~Head(lines).Readable THEN 1 ELSE 0)
         + Separators(Tail(lines))

\* the call adds a separator: a hint, another buffer than the current one, not unread
WantsSeparator(notify, tgt) ==
    notify # NotifyNone /\ tgt # Cur(bs) /\ ~bs.list[tgt].unread

\* C14: AddLine with a hint other than None on a buffer that is not current
\* and not unread appends one "---" line, sets unread, and the content of
\* the new line ends up after that separator; otherwise no separator is
\* added and unread is unchanged.
C14_AsStated ==
    [][\A notify \in Notifies, line \in MergeLines, tgt \in 1..MaxBuffers :
          IsAddLine(LinesKey, notify, line, tgt) =>
              LET old == bs.list[tgt].lines
                  new == bs'.list[tgt].lines
                  n == Len(old)
              IN  IF WantsSeparator(notify, tgt)
                  THEN /\ bs'.list[tgt].unread
                       /\ Separators(new) = Separators(old) + 1
                       /\ Len(new) = n + 2
                       /\ SubSeq(new, 1, n) = old
                       /\ new[n + 1] = Separator(now)
                       /\ new[n + 2] = line
                  ELSE /\ bs'.list[tgt].unread = bs.list[tgt].unread
                       /\ Separators(new) = Separators(old)]_vars

\* the call merges: the line and the last line of the buffer are mergeable
Merges(line, tgt) ==
    /\ line.Mergeable
    /\ bs.list[tgt].lines # <<>>
    /\ bs.list[tgt].lines[Len(bs.list[tgt].lines)].Mergeable

\* C15: AddLine of a mergeable line onto a buffer whose last line is
\* mergeable appends no line: the last line becomes the merge of both, or is
\* removed when the merged body is empty; in every other case the line is
\* appended and the lines there were are kept as they are.
C15_AsStated ==
    [][\A notify \in Notifies, line \in MergeLines, tgt \in 1..MaxBuffers :
          IsAddLine(LinesKey, notify, line, tgt) =>
              LET old == bs.list[tgt].lines
                  new == bs'.list[tgt].lines
                  n == Len(old)
              IN  IF Merges(line, tgt)
                  THEN LET merged == doMergeLine(old[n], line)
                       IN  new = SubSeq(old, 1, n - 1)
                                 \o (IF merged.Body # "" THEN <<merged>> ELSE <<>>)
                  ELSE /\ Len(new) > n
                       /\ SubSeq(new, 1, n) = old
                       /\ new[Len(new)] = line]_vars

\* the buffer x is not after the buffer y in the order of the list
InOrder(x, y) ==
    \/ StrLess(x.netName, y.netName)
    \/ /\ x.netName = y.netName
       /\ ~StrLess(ToLower(y.title), ToLower(x.title))

\* C16: after any sequence of Add and Remove calls the buffers are ordered
\* by network name and, within a network, by case-folded title, the home
\* buffer first.
C16_AsStated ==
    ~bs.panic => \A i, j \in 1..Len(bs.list) : i < j => InOrder(bs.list[i], bs.list[j])

\* the step is the call Add(a) that inserts a buffer
IsAdd(a) ==
    /\ ~bs.panic /\ ~bs'.panic
    /\ Len(bs'.list) = Len(bs.list) + 1
    /\ Add(bs, a[1], a[2], a[3]).added
    /\ bs' = Add(bs, a[1], a[2], a[3]).bs

\* C17: Add of a buffer that is not in the list keeps the focus on the same
\* buffer, wherever the new one is inserted, and changes no existing buffer.
C17_FocusStable ==
    [][\A a \in AddArgs :
          (InList(bs, bs.current) /\ IsAdd(a)) =>
              LET i == Add(bs, a[1], a[2], a[3]).i
              IN  /\ InList(bs', bs'.current)
                  /\ bs'.list[bs'.current + 1] = bs.list[bs.current + 1]
                  /\ SubSeq(bs'.list, 1, i) = SubSeq(bs.list, 1, i)
                  /\ SubSeq(bs'.list, i + 2, Len(bs'.list)) = SubSeq(bs.list, i + 1, Len(bs.list))]_vars

\* the oftc home buffer, added first, is still focused with two buffers before it
C17_Witness ==
    /\ ~bs.panic /\ Len(bs.list) = 3 /\ bs.current = 2
    /\ bs.list[3].netName = "oftc" /\ bs.list[3].title = ""
    /\ bs.list[1].netName = "libera" /\ bs.list[2].netName = "libera"

\* a buffer of the list has this netID and this title, case folded
Present(b, netID, title) ==
    \E i \in 1..Len(b.list) :
        b.list[i].netID = netID /\ ToLower(b.list[i].title) = ToLower(title)

\* C18: no two buffers of the list share netID and case-folded title, and
\* Add for a pair that is in the list adds nothing and leaves the list and
\* current as they are, whatever netName is passed.
C18_AsStated ==
    ~bs.panic =>
        /\ \A i, j \in 1..Len(bs.list) :
               i < j => ~(/\ bs.list[i].netID = bs.list[j].netID
                          /\ ToLower(bs.list[i].title) = ToLower(bs.list[j].title))
        /\ \A a \in AddArgs :
               Present(bs, a[1], a[3]) =>
                   /\ ~Add(bs, a[1], a[2], a[3]).added
                   /\ Add(bs, a[1], a[2], a[3]).bs = bs

\* C19: on a list that has buffers, current designates one of them after any
\* sequence of Add, Remove, To, Next and Previous; To at or past the end
\* focuses the last buffer, To below 0 keeps list and focus, Next and
\* Previous wrap around.
C19_AsStated ==
    (~bs.panic /\ bs.list # <<>>) =>
        LET len == Len(bs.list)
        IN  /\ InList(bs, bs.current)
            /\ \A i \in len..MaxBuffers :
                   ~To(bs, i).bs.panic /\ To(bs, i).bs.current = len - 1
            /\ To(bs, -1).bs.current = bs.current /\ To(bs, -1).bs.list = bs.list
            /\ ~Next(bs).panic /\ Next(bs).current = (bs.current + 1) % len
            /\ ~Previous(bs).panic /\ Previous(bs).current = (bs.current - 1 + len) % len

(***************************************************************************)
(* bound.Compare and bound.Update.  The times of this part count half      *)
(* seconds, so that Truncate(time.Second) has something to cut; 0 is the   *)
(* zero time.                                                              *)
(***************************************************************************)
Truncate(t) == t - (t % 2)

Compare(b, line) ==
    LET atT == Truncate(line.At)
    IN  IF atT < b.first THEN -1
        ELSE IF atT > b.last THEN 1
        ELSE IF atT = b.first /\ line.Body # b.firstMessage THEN -1
        ELSE IF atT = b.last /\ line.Body # b.lastMessage THEN -1
        ELSE 0

Update(b, line) ==
    IF line.At = 0 THEN b
    ELSE LET atT == Truncate(line.At)
         IN  IF b.first = 0 \/ atT < b.first
             THEN [b EXCEPT !.first = atT, !.firstMessage = line.Body]
             ELSE IF b.last = 0 \/ atT > b.last
             THEN [b EXCEPT !.last = atT, !.lastMessage = line.Body]
             ELSE b

(***************************************************************************)
(* SpecBounds: the message handler of the App on one buffer.  A message    *)
(* line is added to the buffer and the bounds of the buffer are updated    *)
(* with it.                                                                *)
(***************************************************************************)
BoundsKey == <<"n1", "">>

\* message lines from the first second on, and one without a time
BoundLines == {TextLine(t, body) : t \in {0} \cup 2..MaxBoundTime, body \in {"a", "b"}}

InitBounds == InitWith(BobNoAuth)

BoundsAddBuffer == bs.list = <<>> /\ CallAdd("n1", "libera", "")

BoundsMessage ==
    \E line \in BoundLines :
        /\ ~bs.panic
        /\ bs.list # <<>>
        /\ Len(bs.list[1].lines) < MaxBoundLines
        /\ bs' = AddLine(bs, BoundsKey[1], BoundsKey[2], NotifyNone, line, now)
        /\ app' = [app EXCEPT !.bounds = Update(@, line), !.hasBounds = TRUE]
        /\ UNCHANGED <<sessionVars, loop>>

NextBounds == BoundsAddBuffer \/ BoundsMessage

SpecBounds == InitBounds /\ [][NextBounds]_vars

\* C20: for bounds built by Update from lines, Compare of a line is -1 when
\* its time is before first, 1 when it is after last, and within first and
\* last it is 0, or -1 when the time is that of first or last and the body
\* is not the one recorded for it.
C20_AsStated ==
    app.bounds # ZeroBound =>
        \A line \in BoundLines :
            line.At # 0 =>
                LET b == app.bounds
                    atT == Truncate(line.At)
                    c == Compare(b, line)
                IN  /\ atT < b.first => c = -1
                    /\ atT > b.last => c = 1
                    /\ (b.first <= atT /\ atT <= b.last) =>
                           c = IF \/ atT = b.first /\ line.Body # b.firstMessage
                                  \/ atT = b.last /\ line.Body # b.lastMessage
                               THEN -1 ELSE 0

(***************************************************************************)
(* App.handleIRCEvent for irc.HistoryEvent.  The lines of the event are    *)
(* sorted by Compare into linesBefore and linesAfter, AddLines puts them   *)
(* around the lines of the buffer, and the bounds are updated with the     *)
(* first and the last line of each list.                                   *)
(***************************************************************************)
RECURSIVE SortHistory(_, _, _, _)
SortHistory(a, lines, before, after) ==
    IF lines = <<>> THEN [before |-> before, after |-> after]
    ELSE LET line == Head(lines)
         IN  IF line.Body = "" THEN SortHistory(a, Tail(lines), before, after)
             ELSE IF ~a.hasBounds
             THEN SortHistory(a, Tail(lines), Append(before, line), after)
             ELSE LET c == Compare(a.bounds, line)
                  IN  SortHistory(a, Tail(lines),
                                  IF c < 0 THEN Append(before, line) ELSE before,
                                  IF c > 0 THEN Append(after, line) ELSE after)

\* the bounds after the Update calls of the handler
HistoryBounds(b, before, after) ==
    LET b1 == IF before # <<>>
              THEN Update(Update(b, before[1]), before[Len(before)]) ELSE b
    IN  IF after # <<>> THEN Update(Update(b1, after[1]), after[Len(after)]) ELSE b1

\* the handler: .app and .bs are what it leaves
handleHistoryEvent(a, b, netID, target, lines) ==
    LET srt == SortHistory(a, lines, <<>>, <<>>)
        nb == HistoryBounds(a.bounds, srt.before, srt.after)
    IN  [app |-> IF nb.first # 0 THEN [a EXCEPT !.bounds = nb, !.hasBounds = TRUE] ELSE a,
         bs |-> AddLines(b, netID, target, srt.before, srt.after),
         before |-> srt.before, after |-> srt.after]

(***************************************************************************)
(* SpecHistory: messages and history batches for one buffer.  A batch      *)
(* holds up to MaxHistory lines in the order of their times, as the        *)
(* server sends them.                                                      *)
(***************************************************************************)
HistoryLines == {line \in BoundLines : line.At # 0}

HistoryBatches ==
    {lines \in UNION {[1..n -> HistoryLines] : n \in 1..MaxHistory} :
        \A i \in 1..(Len(lines) - 1) : lines[i].At <= lines[i + 1].At}

InitHistory == InitWith(BobNoAuth)

HistoryAddBuffer == bs.list = <<>> /\ CallAdd("n1", "libera", "")

HistoryMessage ==
    \E line \in HistoryLines :
        /\ ~bs.panic
        /\ bs.list # <<>>
        /\ Len(bs.list[1].lines) < MaxHistoryLines
        /\ bs' = AddLine(bs, BoundsKey[1], BoundsKey[2], NotifyNone, line, now)
        /\ app' = [app EXCEPT !.bounds = Update(@, line), !.hasBounds = TRUE]
        /\ UNCHANGED <<sessionVars, loop>>

HistoryEvent ==
    \E lines \in HistoryBatches :
        /\ ~bs.panic
        /\ bs.list # <<>>
        /\ Len(bs.list[1].lines) + Len(lines) <= MaxHistoryLines
        /\ bs' = handleHistoryEvent(app, bs, BoundsKey[1], BoundsKey[2], lines).bs
        /\ app' = handleHistoryEvent(app, bs, BoundsKey[1], BoundsKey[2], lines).app
        /\ UNCHANGED <<sessionVars, loop>>

NextHistory == HistoryAddBuffer \/ HistoryMessage \/ HistoryEvent

SpecHistory == InitHistory /\ [][NextHistory]_vars

\* the step is the handling of a History event with these lines
IsHistory(lines) ==
    /\ ~bs.panic
    /\ bs.list # <<>>
    /\ Len(bs'.list) = Len(bs.list)
    /\ bs' = handleHistoryEvent(app, bs, BoundsKey[1], BoundsKey[2], lines).bs
    /\ app' = handleHistoryEvent(app, bs, BoundsKey[1], BoundsKey[2], lines).app

\* the earliest and the latest time of lines, cut to the second
MinAt(lines) ==
    CHOOSE t \in {Truncate(lines[i].At) : i \in 1..Len(lines)} :
        \A i \in 1..Len(lines) : t <= Truncate(lines[i].At)

MaxAt(lines) ==
    CHOOSE t \in {Truncate(lines[i].At) : i \in 1..Len(lines)} :
        \A i \in 1..Len(lines) : t >= Truncate(lines[i].At)

\* a line with a time is in the buffer of the bounds
LineKnown(b) ==
    /\ b.list # <<>>
    /\ \E i \in 1..Len(b.list[1].lines) : b.list[1].lines[i].At # 0

\* C21: a History event for a buffer with bounds leaves first at the earlier
\* of the old first and the earliest line placed before, and last at the
\* later of the old last and the latest line placed after; whenever a line
\* of the buffer is known, first and last are both set and first <= last.
C21_AsStated ==
    [][/\ \A lines \in HistoryBatches :
              (app.bounds.first # 0 /\ IsHistory(lines)) =>
                  LET h == handleHistoryEvent(app, bs, BoundsKey[1], BoundsKey[2], lines)
                      old == app.bounds
                  IN  /\ app'.bounds.first =
                             IF h.before = <<>> \/ old.first <= MinAt(h.before)
                             THEN old.first ELSE MinAt(h.before)
                      /\ app'.bounds.last =
                             IF h.after = <<>> \/ old.last >= MaxAt(h.after)
                             THEN old.last ELSE MaxAt(h.after)
       /\ (~bs'.panic /\ LineKnown(bs')) =>
              /\ app'.bounds.first # 0
              /\ app'.bounds.last # 0
              /\ app'.bounds.first <= app'.bounds.last]_vars

\* the line is one of the lines of the buffer
Shown(b, line) == \E j \in 1..Len(b.list[1].lines) : b.list[1].lines[j] = line

\* C22: a History event for a buffer with bounds puts a line that repeats a
\* line of the buffer into neither list, and an event that only repeats
\* lines of the buffer leaves the lines of the buffer as they are.
C22_AsStated ==
    [][\A lines \in HistoryBatches :
          (app.hasBounds /\ IsHistory(lines)) =>
              LET h == handleHistoryEvent(app, bs, BoundsKey[1], BoundsKey[2], lines)
              IN  /\ \A i \in 1..Len(lines) :
                         Shown(bs, lines[i]) =>
                             /\ \A j \in 1..Len(h.before) : h.before[j] # lines[i]
                             /\ \A j \in 1..Len(h.after) : h.after[j] # lines[i]
                  /\ (\A i \in 1..Len(lines) : Shown(bs, lines[i])) =>
                         bs'.list[1].lines = bs.list[1].lines]_vars

(***************************************************************************)
(* BufferList.ScrollUp, ScrollDown and UpdateRead, on the buffer of        *)
(* BufferList.cur.                                                         *)
(***************************************************************************)
ScrollUp(b, n) ==
    IF Cur(b) = -1 THEN Panic(b)
    ELSE LET buf == GetBuf(b, Cur(b))
         IN  IF buf.isAtTop THEN b
             ELSE SetBuf(b, Cur(b), [buf EXCEPT !.scrollAmt = @ + n])

ScrollDown(b, n) ==
    IF Cur(b) = -1 THEN Panic(b)
    ELSE LET buf == GetBuf(b, Cur(b))
         IN  SetBuf(b, Cur(b), [buf EXCEPT !.scrollAmt = IF @ - n < 0 THEN 0 ELSE @ - n])

\* the loop of UpdateRead from line i down: the position of the line that the
\* variable line points to when the loop ends, 0 for nil.  The loop ends at
\* a Readable line at or above the bottom of the view, or after lines[1].
RECURSIVE ReadScan(_, _, _, _)
ReadScan(lines, i, y, scrollAmt) ==
    IF i = 0 THEN (IF lines = <<>> THEN 0 ELSE 1)
    ELSE IF y >= scrollAmt /\ lines[i].Readable THEN i
    ELSE ReadScan(lines, i - 1, y + Rows(lines[i]), scrollAmt)

\* UpdateRead that stores and returns the time of the line without comparing
\* it with the marker
UpdateRead_NoCompare(b) ==
    IF Cur(b) = -1 THEN [bs |-> Panic(b), netID |-> "", title |-> "", timestamp |-> 0]
    ELSE LET buf == GetBuf(b, Cur(b))
             k == ReadScan(buf.lines, Len(buf.lines), 0, buf.scrollAmt)
         IN  IF k # 0 /\ buf.lines[k].At # 0
             THEN [bs |-> SetBuf(b, Cur(b), [buf EXCEPT !.read = buf.lines[k].At]),
                   netID |-> buf.netID, title |-> buf.title, timestamp |-> buf.lines[k].At]
             ELSE [bs |-> b, netID |-> "", title |-> "", timestamp |-> 0]

\* .netID, .title and .timestamp are the returned values (timestamp 0 is
\* the zero time)
UpdateRead(b) ==
    IF Cur(b) = -1 THEN [bs |-> Panic(b), netID |-> "", title |-> "", timestamp |-> 0]
    ELSE LET buf == GetBuf(b, Cur(b))
             k == ReadScan(buf.lines, Len(buf.lines), 0, buf.scrollAmt)
         IN  IF k # 0 /\ buf.lines[k].At > buf.read
             THEN [bs |-> SetBuf(b, Cur(b), [buf EXCEPT !.read = buf.lines[k].At]),
                   netID |-> buf.netID, title |-> buf.title, timestamp |-> buf.lines[k].At]
             ELSE [bs |-> b, netID |-> "", title |-> "", timestamp |-> 0]

\* App.eventLoop after a burst: the marker UpdateRead returns is passed to
\* Session.ReadSet, unless it is the one of a home buffer
flushRead(a, b, upd) ==
    [bs |-> upd.bs,
     app |-> IF upd.title # ""
             THEN [a EXCEPT !.readSet = Append(@, [netID |-> upd.netID, buffer |-> upd.title,
                                                   timestamp |-> upd.timestamp])]
             ELSE a]

(***************************************************************************)
(* SpecRead: the read marker of one channel buffer.  Message lines and     *)
(* status lines (not Readable) arrive, history is put before them, the     *)
(* view scrolls, the server sets the marker and the event loop flushes it. *)
(***************************************************************************)
ReadKey == <<"n1", "#a">>

StatusLine(atT) == Line(atT, "st", FALSE, FALSE, FALSE, <<>>)

ReadLines ==
    {TextLine(t, "hi") : t \in 1..MaxReadTime} \cup {StatusLine(t) : t \in 1..MaxReadTime}

InitRead == InitWith(BobNoAuth)

ReadAddBuffer == bs.list = <<>> /\ CallAdd("n1", "libera", "#a")

ReadRoom(extra) ==
    /\ ~bs.panic
    /\ bs.list # <<>>
    /\ Len(bs.list[1].lines) + extra <= MaxReadLines

ReadAddLine ==
    \E line \in ReadLines :
        ReadRoom(1) /\ CallAddLine(ReadKey[1], ReadKey[2], NotifyNone, line)

ReadAddLines ==
    \E line \in ReadLines :
        ReadRoom(1) /\ CallAddLines(ReadKey[1], ReadKey[2], <<line>>, <<>>)

ReadScrollUp == bs.list # <<>> /\ bs.list[1].scrollAmt < MaxScroll /\ BufferCall(ScrollUp(bs, 1))

ReadScrollDown == bs.list # <<>> /\ BufferCall(ScrollDown(bs, 1))

ReadSetRead == \E ts \in 0..MaxReadTime : CallSetRead(ReadKey[1], ReadKey[2], ts)

ReadFlush ==
    /\ ~bs.panic
    /\ bs.list # <<>>
    /\ Len(app.readSet) < MaxReadSets
    /\ bs' = flushRead(app, bs, UpdateRead(bs)).bs
    /\ app' = flushRead(app, bs, UpdateRead(bs)).app
    /\ UNCHANGED <<sessionVars, loop>>

NextRead ==
    \/ ReadAddBuffer \/ ReadAddLine \/ ReadAddLines \/ ReadScrollUp \/ ReadScrollDown
    \/ ReadSetRead \/ ReadFlush

SpecRead == InitRead /\ [][NextRead]_vars

\* C23: the read marker of a buffer never moves back, SetRead with an older
\* timestamp does not lower it, and the timestamps UpdateRead returns for a
\* buffer, in the order of the calls, never go back.
C23_ReadMonotone ==
    [][(~bs.panic /\ ~bs'.panic /\ bs.list # <<>> /\ bs'.list # <<>>) =>
          /\ bs'.list[1].read >= bs.list[1].read
          /\ \A ts \in 0..MaxReadTime :
                 SetRead(bs, ReadKey[1], ReadKey[2], ts).list[1].read >= bs.list[1].read
          /\ \A i, j \in 1..Len(app'.readSet) :
                 (i < j /\ app'.readSet[i].buffer = app'.readSet[j].buffer) =>
                     app'.readSet[i].timestamp <= app'.readSet[j].timestamp]_vars

\* two markers were flushed, the second while the view was scrolled up, and
\* the marker of the buffer is the newer one
C23_Witness ==
    /\ ~bs.panic /\ bs.list # <<>>
    /\ Len(app.readSet) = 2
    /\ app.readSet[1].timestamp < app.readSet[2].timestamp
    /\ bs.list[1].read = app.readSet[2].timestamp
    /\ bs.list[1].scrollAmt > 0

\* the rows of the timeline below line i
RECURSIVE RowsBelow(_, _)
RowsBelow(lines, i) ==
    IF i >= Len(lines) THEN 0 ELSE Rows(lines[i + 1]) + RowsBelow(lines, i + 1)

\* the Readable lines at or above the bottom of the view
InView(buf) ==
    {i \in 1..Len(buf.lines) :
        buf.lines[i].Readable /\ RowsBelow(buf.lines, i) >= buf.scrollAmt}

\* C24: the timestamp UpdateRead stores and returns is the one of the newest
\* Readable line at or above the bottom of the view; without such a line it
\* returns nothing and leaves the marker as it is.
C24_AsStated ==
    (~bs.panic /\ bs.list # <<>>) =>
        LET buf == bs.list[1]
            upd == UpdateRead(bs)
        IN  IF InView(buf) = {}
            THEN upd.timestamp = 0 /\ upd.bs = bs
            ELSE LET k == CHOOSE i \in InView(buf) : \A j \in InView(buf) : j <= i
                 IN  upd.timestamp # 0 =>
                         /\ upd.timestamp = buf.lines[k].At
                         /\ upd.bs.list[1].read = buf.lines[k].At

(***************************************************************************)
(* The orchestrator: app.events, the goroutines that send to it (the       *)
(* forwarder of user interface events, the network loop, Close) and the    *)
(* event loop that receives from it.  The model has one network, "n1", and *)
(* a focused channel buffer of it.                                         *)
(***************************************************************************)

\* an event of app.events: src is "*" for the user interface and the netID
\* otherwise; kind stands for the content ("nil" is the nil content), conn is
\* the connection it came from and n its position in what the source produced
Event(src, kind, conn, n) == [src |-> src, kind |-> kind, conn |-> conn, n |-> n]

\* a message that the session turns into BouncerNetworkEvent{ID, Name}
BouncerMsg(src, conn, n, id, name) ==
    Event(src, "bouncer", conn, n) @@ [id |-> id, name |-> name]

\* an instance of App.ircLoop(netID) at its start: k counts its connections,
\* n the messages of the connection, msg is the message read
NetLoop(netID) == [netID |-> netID, pc |-> "top", k |-> 0, n |-> 0, msg |-> <<>>]

\* a send on app.events blocks while the channel holds eventChanSize events
Full(a) == Len(a.events) >= EventChanSize

\* app.events <- ev
Post(a, ev) == [a EXCEPT !.events = Append(@, ev)]

\* a receive that hands out the newest event instead of the oldest
Recv_Newest(q) ==
    [ev |-> q[Len(q)], rest |-> SubSeq(q, 1, Len(q) - 1)]

\* ev := <-app.events
Recv(q) ==
    [ev |-> Head(q), rest |-> Tail(q)]

\* the program does something while app.pasting is as in a
Did(what, a) == [what |-> what, pasting |-> a.pasting]

\* the session of the network netID in app.sessions, if any
HasSession(a, netID) == \E s \in a.sessions : s.netID = netID

\* App.typing after a key that left text in the input: a notification goes
\* to the session of the focused buffer, unless there is no such session or
\* the buffer is a home buffer
AppTyping(a, b, lp) ==
    LET cur == b.list[b.current + 1]
    IN  IF ~HasSession(a, cur.netID) \/ cur.title = ""
        THEN lp
        ELSE [lp EXCEPT !.done = Did("typing", a)]

\* App.handleUIEvent: a paste event sets app.pasting, a key goes to
\* handleKeyEvent, which ends with app.typing
handleUIEvent(a, b, lp, ev) ==
    IF ev.kind = "pasteStart" THEN [ok |-> TRUE, app |-> [a EXCEPT !.pasting = TRUE], loop |-> lp]
    ELSE IF ev.kind = "pasteEnd" THEN [ok |-> TRUE, app |-> [a EXCEPT !.pasting = FALSE], loop |-> lp]
    ELSE [ok |-> TRUE, app |-> a, loop |-> AppTyping(a, b, lp)]

\* App.handleIRCEvent, as far as the sessions go: the nil content closes and
\* forgets the network's session, a session replaces (and closes) the one
\* before it, the end of a typing only refreshes the screen, and a message
\* goes to the session of its network: without one the program panics
handleIRCEvent(a, lp, ev) ==
    LET old == {s \in a.sessions : s.netID = ev.src}
        shut == [lp EXCEPT !.irc.closed = @ \cup {s.conn : s \in old}]
    IN  IF ev.kind = "nil"
        THEN [ok |-> TRUE, app |-> [a EXCEPT !.sessions = @ \ old], loop |-> shut]
        ELSE IF ev.kind = "session"
        THEN [ok |-> TRUE,
              app |-> [a EXCEPT !.sessions = (@ \ old) \cup {[netID |-> ev.src, conn |-> ev.conn]}],
              loop |-> shut]
        ELSE IF ev.kind = "stop" \/ HasSession(a, ev.src)
        THEN [ok |-> TRUE, app |-> a, loop |-> lp]
        ELSE [ok |-> TRUE, app |-> a, loop |-> [lp EXCEPT !.done = Did("panic", a)]]

\* App.handleIRCEvent for a message that the session turns into a
\* BouncerNetworkEvent: the home buffer of the network is added, and when it
\* was not there a network loop is started for the network
handleBouncerNetwork(a, b, lp, ev) ==
    LET r == Add(b, ev.id, ev.name, "")
    IN  [ok |-> TRUE, app |-> a, bs |-> r.bs,
         loop |-> IF r.added THEN [lp EXCEPT !.nets = Append(@, NetLoop(ev.id))] ELSE lp]

\* App.handleEvent: false ends the event loop
handleEvent(a, b, lp, ev) ==
    LET seen == [lp EXCEPT !.done = Did("event", a),
                           !.handled = IF ev.src = "*" THEN [@ EXCEPT !.ui = ev]
                                       ELSE IF ev.kind = "stop" THEN @
                                       ELSE [@ EXCEPT !.net = ev]]
    IN  IF ev.src = "*"
        THEN IF ev.kind = "nil"
             THEN [ok |-> FALSE, app |-> a, loop |-> seen]
             ELSE handleUIEvent(a, b, seen, ev)
        ELSE IF ev.kind = "bouncer" /\ HasSession(a, ev.src)
        THEN handleBouncerNetwork(a, b, seen, ev)
        ELSE handleIRCEvent(a, seen, ev)


\* a flush that does not look at app.pasting
flush_Always(a, b, lp) ==
    LET upd == UpdateRead(b)
        f == IF HasSession(a, upd.netID) THEN flushRead(a, b, upd) ELSE [bs |-> upd.bs, app |-> a]
    IN  [app |-> f.app, bs |-> f.bs,
         loop |-> [lp EXCEPT !.done = Did("draw", a), !.drawn = @ + 1]]

\* App.eventLoop after a burst: unless a paste is going on, the read marker
\* is updated and passed to the session, status and prompt are recomputed
\* and the window is drawn
flush(a, b, lp) ==
    IF a.pasting
    THEN [app |-> a, bs |-> b, loop |-> lp]
    ELSE LET upd == UpdateRead(b)
             f == IF HasSession(a, upd.netID) THEN flushRead(a, b, upd)
                  ELSE [bs |-> upd.bs, app |-> a]
         IN  [app |-> f.app, bs |-> f.bs,
              loop |-> [lp EXCEPT !.done = Did("draw", a), !.drawn = @ + 1]]

\* a step of the orchestrator that leaves the session alone
LoopStep(a, b, lp) ==
    /\ app' = a
    /\ bs' = b
    /\ loop' = lp
    /\ UNCHANGED sessionVars

\* App.eventLoop, the loop condition: when the window is to exit the loop
\* ends, the window is closed and a goroutine is left draining app.events
LoopTop ==
    /\ loop.pc = "top"
    /\ LoopStep(app, bs,
                IF app.exit THEN [loop EXCEPT !.pc = "returned", !.drain = TRUE]
                ELSE [loop EXCEPT !.pc = "recv"])

\* one event received and handled by the event loop; a handler that
\* returns false makes the event loop return
Handle(first) ==
    /\ app.events # <<>>
    /\ LET r == Recv(app.events)
           lp == IF first THEN [loop EXCEPT !.many = FALSE, !.drawn = 0, !.deadline = FALSE]
                 ELSE [loop EXCEPT !.many = TRUE]
           h == handleEvent([app EXCEPT !.events = r.rest], bs, lp, r.ev)
       IN  LoopStep(h.app, IF "bs" \in DOMAIN h THEN h.bs ELSE bs,
                    [h.loop EXCEPT !.pc = IF h.ok THEN "burst" ELSE "returned"])

\* the blocking receive that starts a burst, and the 200ms timer
LoopRecv == loop.pc = "recv" /\ Handle(TRUE)

\* the select of the burst: another event is ready
LoopBurstEvent == loop.pc = "burst" /\ Handle(FALSE)

\* the timer of the burst fires
DeadlineFires ==
    /\ loop.pc = "burst"
    /\ ~loop.deadline
    /\ LoopStep(app, bs, [loop EXCEPT !.deadline = TRUE])

\* the select of the burst: the timer has fired
LoopDeadline ==
    /\ loop.pc = "burst"
    /\ loop.deadline
    /\ LoopStep(app, bs, [loop EXCEPT !.pc = "flush"])

\* the select of the burst: nothing is ready
LoopDefault ==
    /\ loop.pc = "burst"
    /\ ~loop.deadline
    /\ app.events = <<>>
    /\ LoopStep(app, bs, [loop EXCEPT !.pc = "flush"])

\* the end of the burst
LoopFlush ==
    /\ loop.pc = "flush"
    /\ LET f == flush(app, bs, loop)
       IN  LoopStep(f.app, f.bs, [f.loop EXCEPT !.pc = "top"])

\* the goroutine that eventLoop leaves behind when its loop ends
Drain ==
    /\ loop.drain
    /\ app.events # <<>>
    /\ LoopStep([app EXCEPT !.events = Tail(@)], bs, loop)

\* the terminal hands an event of one of the kinds to the user interface,
\* whose pump checks ShouldExit before each poll
UiPollOf(kinds) ==
    /\ loop.ui.pc = "poll"
    /\ ~app.exit
    /\ loop.ui.n < MaxUiEvents
    /\ \E kind \in kinds :
           LoopStep(app, bs, [loop EXCEPT !.ui = [pc |-> "send", n |-> @.n + 1, kind |-> kind]])

UiPoll == UiPollOf({"key", "pasteStart", "pasteEnd"})

UiKey == UiPollOf({"key"})

\* App.uiLoop: app.events <- event{src: "*", content: ev}
UiSend ==
    /\ loop.ui.pc = "send"
    /\ ~Full(app)
    /\ LoopStep(Post(app, Event("*", loop.ui.kind, 0, loop.ui.n)), bs,
                [loop EXCEPT !.ui.pc = "poll"])

\* the pump ends when the window is to exit
UiStop ==
    /\ loop.ui.pc = "poll"
    /\ app.exit
    /\ LoopStep(app, bs, [loop EXCEPT !.ui.pc = "done"])

\* App.ircLoop, the loop condition and app.connect
IrcTop ==
    /\ loop.irc.pc = "top"
    /\ app.exit \/ loop.irc.conn < MaxConns
    /\ LoopStep(app, bs,
                IF app.exit THEN [loop EXCEPT !.irc.pc = "done"]
                ELSE [loop EXCEPT !.irc.pc = "session", !.irc.conn = @ + 1, !.irc.n = 0])

\* App.ircLoop: app.events <- event{src: netID, content: session}
IrcSession ==
    /\ loop.irc.pc = "session"
    /\ ~Full(app)
    /\ LoopStep(Post(app, Event("n1", "session", loop.irc.conn, 0)), bs,
                [loop EXCEPT !.irc.pc = "msgs"])

\* a message arrives on the connection
IrcMsg ==
    /\ loop.irc.pc = "msgs"
    /\ loop.irc.conn \notin loop.irc.closed
    /\ loop.irc.n < MaxMsgs
    /\ LoopStep(app, bs, [loop EXCEPT !.irc.pc = "send", !.irc.n = @ + 1])

\* App.ircLoop: app.events <- event{src: netID, content: msg}
IrcSend ==
    /\ loop.irc.pc = "send"
    /\ ~Full(app)
    /\ LoopStep(Post(app, Event("n1", "msg", loop.irc.conn, loop.irc.n)), bs,
                [loop EXCEPT !.irc.pc = "msgs"])

\* the goroutine ircLoop starts after the session event: a typing of the
\* session conn has timed out, app.events <- event{src: netID, content: stop}
StopSend ==
    /\ loop.stops < MaxStops
    /\ ~Full(app)
    /\ \E conn \in 1..loop.irc.conn :
           /\ conn = loop.irc.conn => loop.irc.pc # "session"
           /\ LoopStep(Post(app, Event("n1", "stop", conn, loop.stops + 1)), bs,
                       [loop EXCEPT !.stops = @ + 1])

\* the server ends the connection
IrcLost ==
    /\ loop.irc.pc = "msgs"
    /\ loop.irc.conn \notin loop.irc.closed
    /\ LoopStep(app, bs, [loop EXCEPT !.irc.pc = "nil"])

\* the session was closed, which ends the connection
IrcClosed ==
    /\ loop.irc.pc = "msgs"
    /\ loop.irc.conn \in loop.irc.closed
    /\ LoopStep(app, bs, [loop EXCEPT !.irc.pc = "nil"])

\* App.ircLoop: app.events <- event{src: netID, content: nil}
IrcNil ==
    /\ loop.irc.pc = "nil"
    /\ ~Full(app)
    /\ LoopStep(Post(app, Event("n1", "nil", loop.irc.conn, 0)), bs,
                [loop EXCEPT !.irc.pc = "check"])

\* App.ircLoop: if app.win.ShouldExit() { break }; time.Sleep
IrcCheck ==
    /\ loop.irc.pc = "check"
    /\ LoopStep(app, bs, [loop EXCEPT !.irc.pc = IF app.exit THEN "done" ELSE "top"])

\* main's signal goroutine: a signal arrives and App.Close starts with
\* app.win.Exit()
SigClose ==
    /\ loop.sig = "idle"
    /\ LoopStep([app EXCEPT !.exit = TRUE], bs, [loop EXCEPT !.sig = "send"])

\* main: app.Run() has returned and App.Close starts with app.win.Exit()
MainClose ==
    /\ loop.main = "run"
    /\ loop.pc = "returned"
    /\ LoopStep([app EXCEPT !.exit = TRUE], bs, [loop EXCEPT !.main = "send"])

\* App.Close: app.events <- event{src: "*", content: nil}
CloseSend(who) ==
    /\ loop[who] = "send"
    /\ ~Full(app)
    /\ LoopStep(Post(app, Event("*", "nil", 0, 0)), bs, [loop EXCEPT ![who] = "close"])

\* App.Close: every session of app.sessions is closed
CloseSessions(who) ==
    /\ loop[who] = "close"
    /\ LoopStep(app, bs,
                [loop EXCEPT ![who] = "done",
                             !.irc.closed = @ \cup {s.conn : s \in app.sessions}])

(***************************************************************************)
(* SpecLoop: the program running, with a channel buffer of "n1" focused.   *)
(* The terminal sends keys and the start and end of pastes, the network    *)
(* connects and loses its connection.                                      *)
(***************************************************************************)
InitLoop ==
    /\ InitSession(BobNoAuth)
    /\ bs = Add(NewBufferList, "n1", "libera", "#a").bs
    /\ app = NewApp
    /\ loop = NewLoop

NextLoop ==
    \/ LoopTop \/ LoopRecv \/ LoopBurstEvent \/ DeadlineFires \/ LoopDeadline
    \/ LoopDefault \/ LoopFlush
    \/ UiPoll \/ UiSend
    \/ IrcTop \/ IrcSession \/ IrcLost \/ IrcNil \/ IrcCheck

SpecLoop == InitLoop /\ [][NextLoop]_vars

(***************************************************************************)
(* SpecFifo: the same program where the terminal sends keys only and the   *)
(* network also delivers messages and typing timeouts.                     *)
(***************************************************************************)
NextFifo ==
    \/ LoopTop \/ LoopRecv \/ LoopBurstEvent \/ DeadlineFires \/ LoopDeadline
    \/ LoopDefault \/ LoopFlush
    \/ UiKey \/ UiSend
    \/ IrcTop \/ IrcSession \/ IrcMsg \/ IrcSend \/ IrcLost \/ IrcNil \/ IrcCheck
    \/ StopSend

SpecFifo == InitLoop /\ [][NextFifo]_vars

\* the burst ends: the event loop leaves the select for the flush
BurstEnds == loop.pc = "burst" /\ loop'.pc = "flush"

\* the event loop is done with a burst and goes back to its loop condition
BurstDone == loop.pc = "flush" /\ loop'.pc = "top"

C26_AsStated ==
    loop.done.what \in {"draw", "typing"} => ~loop.done.pasting

\* the part of it about the draw and the flush
C26_NoDraw ==
    loop.done.what = "draw" => ~loop.done.pasting

\* the network event new is what the network loop produced right after old
NextOfNet(old, new) ==
    IF old.kind = "" THEN new.kind = "session" /\ new.conn = 1
    ELSE IF old.kind = "session"
    THEN new.conn = old.conn /\ (new.kind = "nil" \/ (new.kind = "msg" /\ new.n = 1))
    ELSE IF old.kind = "msg"
    THEN new.conn = old.conn /\ (new.kind = "nil" \/ (new.kind = "msg" /\ new.n = old.n + 1))
    ELSE new.kind = "session" /\ new.conn = old.conn + 1

NextShutdown ==
    \/ LoopTop \/ LoopRecv \/ LoopBurstEvent \/ DeadlineFires \/ LoopDeadline
    \/ LoopDefault \/ LoopFlush \/ Drain
    \/ UiKey \/ UiSend \/ UiStop
    \/ IrcTop \/ IrcSession \/ IrcMsg \/ IrcSend \/ IrcLost \/ IrcClosed \/ IrcNil \/ IrcCheck
    \/ SigClose \/ MainClose
    \/ CloseSend("sig") \/ CloseSend("main")
    \/ CloseSessions("sig") \/ CloseSessions("main")

SpecShutdown ==
    /\ InitLoop
    /\ [][NextShutdown]_vars
    /\ WF_vars(LoopTop) /\ WF_vars(LoopRecv) /\ WF_vars(LoopBurstEvent)
    /\ WF_vars(LoopDeadline) /\ WF_vars(LoopDefault) /\ WF_vars(DeadlineFires)
    /\ WF_vars(LoopFlush) /\ WF_vars(Drain)
    /\ WF_vars(UiSend) /\ WF_vars(UiStop)
    /\ WF_vars(IrcTop) /\ WF_vars(IrcSession) /\ WF_vars(IrcSend) /\ WF_vars(IrcClosed)
    /\ WF_vars(IrcNil) /\ WF_vars(IrcCheck)
    /\ WF_vars(MainClose)
    /\ WF_vars(CloseSend("sig")) /\ WF_vars(CloseSend("main"))
    /\ WF_vars(CloseSessions("sig")) /\ WF_vars(CloseSessions("main"))


\* App.Close has set the exit flag and posted its sentinel
Posted == loop.sig \in {"close", "done"} \/ loop.main \in {"close", "done"}

\* a goroutine is blocked in a send on app.events
Blocked ==
    /\ Full(app)
    /\ \/ loop.ui.pc = "send"
       \/ loop.irc.pc \in {"session", "send", "nil"}
       \/ loop.sig = "send"
       \/ loop.main = "send"

\* C28: once Close has set the exit flag and posted the sentinel, the event
\* loop eventually returns and app.events is drained for good, so that no
\* goroutine stays blocked in a send on it.
C28_AsStated ==
    [](Posted => <>[](loop.pc = "returned" /\ app.events = <<>> /\ ~Blocked))

(***************************************************************************)
(* Scrolling up and the request for older history.                        *)
(***************************************************************************)
OpenOverlay(b) == [b EXCEPT !.overlay = <<Buffer("", "", Overlay)>>]

CloseOverlay(b) == [b EXCEPT !.overlay = <<>>]

HasOverlay(b) == b.overlay # <<>>

IsAtTop(b) == GetBuf(b, Cur(b)).isAtTop

\* the loop of DrawTimeline over the lines from line i up: the row yi, counted
\* from the first row of the timeline, that it ends with
RECURSIVE DrawScan(_, _, _)
DrawScan(lines, i, yi) ==
    IF i = 0 \/ yi < 0 THEN yi
    ELSE DrawScan(lines, i - 1, yi - Rows(lines[i]))

\* BufferList.DrawTimeline, as far as the buffer goes: the view is at the top
\* when the oldest line was laid out on or below the first row
DrawTimeline(b) ==
    LET buf == GetBuf(b, Cur(b))
    IN  SetBuf(b, Cur(b),
               [buf EXCEPT !.isAtTop = 0 <= DrawScan(buf.lines, Len(buf.lines),
                                                     buf.scrollAmt + TlHeight)])

HistoryLimit == 200

\* Session.NewHistoryRequest(target).WithLimit(limit).Before(t): the request
\* is made unless one for the target is pending
HistoryBefore(a, netID, target, limit, t) ==
    IF <<netID, target>> \in a.pending THEN a
    ELSE [a EXCEPT !.history = Append(@, [netID |-> netID, target |-> target,
                                          limit |-> limit, before |-> t]),
                   !.pending = @ \cup {<<netID, target>>}]

\* the history of the target has arrived: no request for it is pending
HistoryAnswered(a, netID, target) == [a EXCEPT !.pending = @ \ {<<netID, target>>}]

\* an App.requestHistory that does not ask whether the view is at the top
AppRequestHistory_Anywhere(a, b, nowT) ==
    IF HasOverlay(b) THEN a
    ELSE LET cur == b.list[b.current + 1]
         IN  IF ~HasSession(a, cur.netID) THEN a
             ELSE IF cur.title # ""
             THEN HistoryBefore(a, cur.netID, cur.title, HistoryLimit,
                                IF a.hasBounds /\ a.key = <<cur.netID, cur.title>>
                                THEN a.bounds.first ELSE nowT)
             ELSE a

\* App.requestHistory at the time nowT
AppRequestHistory(a, b, nowT) ==
    IF HasOverlay(b) THEN a
    ELSE LET cur == b.list[b.current + 1]
         IN  IF ~HasSession(a, cur.netID) THEN a
             ELSE IF IsAtTop(b) /\ cur.title # ""
             THEN HistoryBefore(a, cur.netID, cur.title, HistoryLimit,
                                IF a.hasBounds /\ a.key = <<cur.netID, cur.title>>
                                THEN a.bounds.first ELSE nowT)
             ELSE a

\* App.handleKeyEvent, page up: app.win.ScrollUp(); app.requestHistory()
keyScrollUp(a, b, nowT) ==
    LET b1 == ScrollUp(b, TlHeight \div 2)
    IN  [bs |-> b1, app |-> AppRequestHistory(a, b1, nowT)]

(***************************************************************************)
(* SpecScroll: a home buffer and the channel "#a" of the network "n1".     *)
(* Sessions come and go, messages and history arrive for the channel, the  *)
(* overlay opens and closes, the focus moves, the window is drawn and the  *)
(* user scrolls.                                                           *)
(***************************************************************************)
ScrollKey == <<"n1", "#a">>

ScrollLines == {TextLine(t, "hi") : t \in 1..MaxScrollTime}

\* the time of the page up, later than the times of the lines received
ScrollNow == MaxScrollTime + 1

InitScroll ==
    /\ InitSession(BobNoAuth)
    /\ bs = Add(Add(NewBufferList, "n1", "libera", "").bs, "n1", "libera", "#a").bs
    /\ app = [NewApp EXCEPT !.key = ScrollKey]
    /\ loop = NewLoop

ScrollStep(a, b) ==
    /\ ~bs.panic
    /\ app' = a
    /\ bs' = b
    /\ UNCHANGED <<sessionVars, loop>>

ScrollSession == ScrollStep(handleIRCEvent(app, loop, Event("n1", "session", 1, 0)).app, bs)

ScrollLost == ScrollStep(handleIRCEvent(app, loop, Event("n1", "nil", 1, 0)).app, bs)

ScrollTo == \E i \in 0..1 : ScrollStep(app, To(bs, i).bs)

ScrollOpenOverlay == ScrollStep(app, OpenOverlay(bs))

ScrollCloseOverlay == ScrollStep(app, CloseOverlay(bs))

ScrollMessage ==
    \E line \in ScrollLines :
        /\ Len(bs.list[2].lines) < MaxScrollLines
        /\ ScrollStep([app EXCEPT !.bounds = Update(@, line), !.hasBounds = TRUE],
                      AddLine(bs, ScrollKey[1], ScrollKey[2], NotifyNone, line, now))

ScrollHistory ==
    \E lines \in {<<>>} \cup {<<line>> : line \in ScrollLines} :
        /\ Len(bs.list[2].lines) + Len(lines) <= MaxScrollLines
        /\ LET h == handleHistoryEvent(app, bs, ScrollKey[1], ScrollKey[2], lines)
           IN  ScrollStep(HistoryAnswered(h.app, ScrollKey[1], ScrollKey[2]), h.bs)

ScrollDraw == ScrollStep(app, DrawTimeline(bs))

ScrollUpKey ==
    /\ IsAtTop(bs) \/ GetBuf(bs, Cur(bs)).scrollAmt + TlHeight < MaxScrollLines
    /\ LET k == keyScrollUp(app, bs, ScrollNow)
       IN  Len(k.app.history) <= MaxRequests /\ ScrollStep(k.app, k.bs)

ScrollDownKey == ScrollStep(app, ScrollDown(bs, TlHeight \div 2))

NextScroll ==
    \/ ScrollSession \/ ScrollLost \/ ScrollTo \/ ScrollOpenOverlay \/ ScrollCloseOverlay
    \/ ScrollMessage \/ ScrollHistory \/ ScrollDraw \/ ScrollUpKey \/ ScrollDownKey

SpecScroll == InitScroll /\ [][NextScroll]_vars

MergeEvents ==
    {UserJoinEvent(u) : u \in {"Amy", "amy", "Bob"}}
        \cup {UserPartEvent(u) : u \in {"Amy", "amy", "Bob"}}

InitMerge ==
    /\ InitSession(BobNoAuth)
    /\ \E ev \in MergeEvents :
           bs = [Add(NewBufferList, "n1", "libera", "#a").bs
                     EXCEPT !.list[1].lines = <<formatEvent(ev, 1)>>]
    /\ app = NewApp
    /\ loop = NewLoop

\* the MergeLine callback of the user interface on the line and an addition
MergeCall ==
    \E ev \in MergeEvents :
        /\ Len(bs.list[1].lines[1].Data) < MaxMergeEvents
        /\ bs' = [bs EXCEPT !.list[1].lines[1] = doMergeLine(@, formatEvent(ev, 1))]
        /\ UNCHANGED <<sessionVars, app, loop>>

NextMerge == MergeCall

SpecMerge == InitMerge /\ [][NextMerge]_vars

\* the positions of the events of the user of events[i], case-folded
OfUser(events, i) ==
    {j \in 1..Len(events) : ToLower(events[j].User) = ToLower(events[i].User)}

\* each user joins and parts in turn
RoundTrips(events) ==
    \A i, j \in 1..Len(events) :
        (/\ i < j
         /\ j \in OfUser(events, i)
         /\ ~\E k \in OfUser(events, i) : i < k /\ k < j)
            => events[i].type # events[j].type

\* an event stays when it is the last one of its user and the user has an
\* odd number of events: all the round trips before it cancel
Stays(events, i) ==
    /\ \A j \in OfUser(events, i) : j <= i
    /\ Cardinality(OfUser(events, i)) % 2 = 1

\* the events that stay from position i on, two spaces between them
RECURSIVE Rendered(_, _, _)
Rendered(events, i, acc) ==
    IF i > Len(events) THEN acc
    ELSE IF Stays(events, i)
    THEN Rendered(events, i + 1,
                  IF acc = "" THEN EventBody(events[i]) ELSE acc \o "  " \o EventBody(events[i]))
    ELSE Rendered(events, i + 1, acc)

\* C30: a merged line is analysed per case-folded user: a join followed by a
\* part, or a part followed by a join, hides both events, so that of the
\* joins and parts of a user the last one stays when their number is odd and
\* none when it is even (join, part, join leaves one join); the Body is the
\* events that stay, in order, with two spaces between them, and is empty
\* when none stays.
C30_RoundTrips ==
    LET line == bs.list[1].lines[1]
    IN  RoundTrips(line.Data) =>
            /\ line.Body = Rendered(line.Data, 1, "")
            /\ (\A i \in 1..Len(line.Data) : ~Stays(line.Data, i)) => line.Body = ""

\* Amy joins, Bob joins, amy parts, Amy joins: Bob's join and Amy's last join
C30_Witness ==
    LET line == bs.list[1].lines[1]
    IN  /\ line.Data = <<UserJoinEvent("Amy"), UserJoinEvent("Bob"),
                         UserPartEvent("amy"), UserJoinEvent("Amy")>>
        /\ line.Body = "+Bob  +Amy"

(***************************************************************************)
(* SpecNick: App.mergeLine applied again and again to one line of a        *)
(* channel buffer, with the lines of nick changes between Amy, Bob and Cat *)
(* as additions.                                                           *)
(***************************************************************************)
NickEvents ==
    {UserNickEvent(a, b) : <<a, b>> \in {<<x, y>> \in {"Amy", "Bob", "Cat"} \X {"Amy", "Bob", "Cat"} : x # y}}

InitNick ==
    /\ InitSession(BobNoAuth)
    /\ \E ev \in NickEvents :
           bs = [Add(NewBufferList, "n1", "libera", "#a").bs
                     EXCEPT !.list[1].lines = <<formatEvent(ev, 1)>>]
    /\ app = NewApp
    /\ loop = NewLoop

\* the MergeLine callback of the user interface on the line and a nick change
NickMergeCall ==
    \E ev \in NickEvents :
        /\ Len(bs.list[1].lines[1].Data) < MaxMergeEvents
        /\ bs' = [bs EXCEPT !.list[1].lines[1] = doMergeLine(@, formatEvent(ev, 1))]
        /\ UNCHANGED <<sessionVars, app, loop>>

NextNick == NickMergeCall

SpecNick == InitNick /\ [][NextNick]_vars

\* C31: a line merged from a nick change A -> B and the later nick change
\* B -> A has an empty Body, so that BufferList.mergeLine does not keep it.
C31_AsStated ==
    LET line == bs.list[1].lines[1]
    IN  (/\ Len(line.Data) = 2
         /\ line.Data[2] = UserNickEvent(line.Data[1].User, line.Data[1].FormerNick))
            => line.Body = "" /\ ~KeepLine(line)

(***************************************************************************)
(* Line layout.  A body is a string of one-byte characters; I counts       *)
(* bytes from 0 as the Go code does, X counts cells.                       *)
(***************************************************************************)
IsSplitRune(r) == r = " " \/ r = "\t"

\* the rune at byte i of the string
RuneAt(str, i) == SubSeq(str, i + 1, i + 1)

\* the characters of the model are one cell wide
runeWidth(r) == 1

Point(x, i, split) == [X |-> x, I |-> i, Split |-> split]

\* the loop of Line.computeSplitPoints from byte i on
RECURSIVE SplitScan(_, _, _, _, _)
SplitScan(str, i, width, lastWasSplit, acc) ==
    IF i >= Len(str)
    THEN IF ~lastWasSplit THEN Append(acc, Point(width, Len(str), TRUE)) ELSE acc
    ELSE LET curIsSplit == IsSplitRune(RuneAt(str, i))
         IN  SplitScan(str, i + 1, width + runeWidth(RuneAt(str, i)), curIsSplit,
                       IF i = 0 \/ lastWasSplit # curIsSplit
                       THEN Append(acc, Point(width, i, curIsSplit))
                       ELSE acc)

\* Line.computeSplitPoints: the split points of the body
computeSplitPoints(str) == SplitScan(str, 0, 0, FALSE, <<>>)

\* the inner loop of Line.NewLines over a word longer than the width, from
\* byte j of the word on
RECURSIVE LongWord(_, _, _, _, _, _, _, _)
LongWord(str, sp1, sp2, width, x, j, wordWidth, st) ==
    IF sp1.I + j >= sp2.I
    THEN LET x2 == (x + wordWidth) % width
         IN  [x |-> x2,
              nl |-> IF x2 = 0 THEN Append(st.nl, sp2.I) ELSE st.nl]
    ELSE LET w == wordWidth + runeWidth(RuneAt(str, sp1.I + j))
         IN  IF st.h * width < x + w
             THEN LongWord(str, sp1, sp2, width, x, j + 1, w,
                           [h |-> st.h + 1, nl |-> Append(st.nl, sp1.I + j)])
             ELSE LongWord(str, sp1, sp2, width, x, j + 1, w, st)

\* a turn of the loop of Line.NewLines without the case of a word that
\* fills the rest of the row
WrapStep_NoExactFit(str, sps, i, width, st) ==
    LET sp1 == sps[i]
        sp2 == sps[i + 1]
        n == Len(st.nl)
    IN  IF 0 < n /\ st.x = 0 /\ sp1.Split THEN st
        ELSE IF ~sp1.Split /\ sp2.X - sp1.X = width
        THEN [x |-> 0,
              nl |-> Append(IF 1 < i /\ 0 < n /\ st.nl[n] # sps[i - 1].I
                            THEN Append(st.nl, sps[i - 1].I) ELSE st.nl,
                            sp2.I)]
        ELSE IF sp2.X - sp1.X + st.x < width
        THEN [st EXCEPT !.x = @ + sp2.X - sp1.X]
        ELSE IF sp1.Split /\ width < sp2.X - sp1.X
        THEN [x |-> 0, nl |-> Append(st.nl, sp1.I)]
        ELSE IF width < sp2.X - sp1.X
        THEN LongWord(str, sp1, sp2, width, st.x, 0, 0, [h |-> 1, nl |-> st.nl])
        ELSE [x |-> IF sp1.Split THEN 0 ELSE sp2.X - sp1.X,
              nl |-> Append(st.nl, sp1.I)]

\* a turn of the loop of Line.NewLines: the split points i-1 and i of the
\* code are sps[i] and sps[i + 1], the split point i-2 is sps[i - 1]
WrapStep(str, sps, i, width, st) ==
    LET sp1 == sps[i]
        sp2 == sps[i + 1]
        n == Len(st.nl)
    IN  IF 0 < n /\ st.x = 0 /\ sp1.Split THEN st
        ELSE IF ~sp1.Split /\ sp2.X - sp1.X = width
        THEN [x |-> 0,
              nl |-> Append(IF 1 < i /\ 0 < n /\ st.nl[n] # sps[i - 1].I
                            THEN Append(st.nl, sps[i - 1].I) ELSE st.nl,
                            sp2.I)]
        ELSE IF sp2.X - sp1.X + st.x < width
        THEN [st EXCEPT !.x = @ + sp2.X - sp1.X]
        ELSE IF sp2.X - sp1.X + st.x = width
        THEN [x |-> 0, nl |-> Append(st.nl, sp2.I)]
        ELSE IF sp1.Split /\ width < sp2.X - sp1.X
        THEN [x |-> 0, nl |-> Append(st.nl, sp1.I)]
        ELSE IF width < sp2.X - sp1.X
        THEN LongWord(str, sp1, sp2, width, st.x, 0, 0, [h |-> 1, nl |-> st.nl])
        ELSE [x |-> IF sp1.Split THEN 0 ELSE sp2.X - sp1.X,
              nl |-> Append(st.nl, sp1.I)]

RECURSIVE WrapLoop(_, _, _, _, _)
WrapLoop(str, sps, i, width, st) ==
    IF i >= Len(sps) THEN st.nl
    ELSE WrapLoop(str, sps, i + 1, width, WrapStep(str, sps, i, width, st))

\* the break at the end of the string is dropped
DropLast(str, nl) ==
    IF 0 < Len(nl) /\ nl[Len(nl)] = Len(str) THEN SubSeq(nl, 1, Len(nl) - 1) ELSE nl

\* Line.NewLines past the check of the cached width
Wrap(str, sps, width) == DropLast(str, WrapLoop(str, sps, 1, width, [x |-> 0, nl |-> <<>>]))

\* a line as AddLine appends it: line.computeSplitPoints(), width and
\* newLines at their zero values
Computed(line) ==
    line @@ [splitPoints |-> computeSplitPoints(line.Body), width |-> 0, newLines |-> <<>>]

\* Line.NewLines: the line after the call and the indices returned
LineNewLines(l, width) ==
    IF l.width = width
    THEN [line |-> l, result |-> l.newLines]
    ELSE LET nl == Wrap(l.Body, l.splitPoints, width)
         IN  [line |-> [l EXCEPT !.width = width, !.newLines = nl], result |-> nl]

\* BufferList.mergeLine that leaves the cached width as it is
mergeLine_KeepWidth(former, addition) ==
    LET merged == doMergeLine(former, addition)
    IN  IF merged.Body = ""
        THEN [keepLine |-> FALSE, line |-> merged]
        ELSE [keepLine |-> TRUE,
              line |-> [merged EXCEPT !.splitPoints = computeSplitPoints(merged.Body)]]

\* BufferList.mergeLine: the former line merged, and keepLine
mergeLine(former, addition) ==
    LET merged == doMergeLine(former, addition)
    IN  IF merged.Body = ""
        THEN [keepLine |-> FALSE, line |-> merged]
        ELSE [keepLine |-> TRUE,
              line |-> [merged EXCEPT !.width = 0,
                                      !.splitPoints = computeSplitPoints(merged.Body)]]

(***************************************************************************)
(* SpecWrap: one line of a channel buffer, a text of words and spaces or   *)
(* a mergeable line of joins and parts, laid out at any width and merged   *)
(* with further joins and parts in any order.                              *)
(***************************************************************************)
RECURSIVE Texts(_)
Texts(n) ==
    IF n = 0 THEN {""}
    ELSE Texts(n - 1) \cup {t \o c : t \in Texts(n - 1), c \in {"a", " "}}

WrapBodies == (Texts(MaxBodyLen) \ {""}) \cup {"hello world foo bar"}

WrapWidths == 1..MaxWidth \cup {9}

WrapEvents == {UserJoinEvent("Amy"), UserPartEvent("Amy"), UserJoinEvent("Bob")}

InitWrap ==
    /\ InitSession(BobNoAuth)
    /\ \E line \in {TextLine(1, t) : t \in WrapBodies}
                       \cup {formatEvent(ev, 1) : ev \in WrapEvents} :
           bs = [Add(NewBufferList, "n1", "libera", "#a").bs
                     EXCEPT !.list[1].lines = <<Computed(line)>>]
    /\ app = NewApp
    /\ loop = NewLoop

\* a caller of NewLines (DrawTimeline, UpdateRead, ...) at the width of the
\* timeline
WrapCall ==
    \E width \in WrapWidths :
        /\ bs.list[1].lines # <<>>
        /\ bs' = [bs EXCEPT !.list[1].lines[1] = LineNewLines(@, width).line]
        /\ UNCHANGED <<sessionVars, app, loop>>

\* AddLine of a mergeable line after the mergeable line
WrapMerge ==
    \E ev \in WrapEvents :
        /\ bs.list[1].lines # <<>>
        /\ bs.list[1].lines[1].Mergeable
        /\ Len(bs.list[1].lines[1].Data) < MaxMergeEvents
        /\ LET m == mergeLine(bs.list[1].lines[1], formatEvent(ev, 1))
           IN  bs' = [bs EXCEPT !.list[1].lines = IF m.keepLine THEN <<m.line>> ELSE <<>>]
        /\ UNCHANGED <<sessionVars, app, loop>>

NextWrap == WrapCall \/ WrapMerge

SpecWrap == InitWrap /\ [][NextWrap]_vars

\* the indices of a computation from the body alone
Fresh(str, width) == Wrap(str, computeSplitPoints(str), width)

\* the line of the buffer
WrapLine == bs.list[1].lines[1]

\* the words of the string: a split point that starts a run of characters
\* other than whitespace, with the split point that ends it
Words(str) ==
    LET sps == computeSplitPoints(str)
    IN  {<<sps[i].I, sps[i + 1].I>> : i \in {j \in 1..(Len(sps) - 1) : ~sps[j].Split}}

\* the start of the row that the text before byte i is on: the last index
\* before i, or -1 on the first row
RowStart(nl, i) ==
    LET before == {k \in 1..Len(nl) : nl[k] < i}
    IN  IF before = {} THEN -1 ELSE nl[CHOOSE k \in before : \A j \in before : j <= k]

\* the first byte from i on that is not whitespace
RECURSIVE SkipSpace(_, _)
SkipSpace(str, i) ==
    IF i < Len(str) /\ IsSplitRune(RuneAt(str, i)) THEN SkipSpace(str, i + 1) ELSE i

\* the byte where the cells of the row that starts at index r begin:
\* whitespace at the start of a row after the first is not drawn
RowFrom(str, r) == IF r < 0 THEN 0 ELSE SkipSpace(str, r)

\* C32, as stated: the body "hello world foo bar" laid out at width 9 has
\* the indices 6 and 12.
C32_AsStated ==
    (/\ bs.list[1].lines # <<>>
     /\ WrapLine.Body = "hello world foo bar"
     /\ WrapLine.width = 9) => WrapLine.newLines = <<6, 12>>

\* C32: the body "hello world foo bar" laid out at width 9 has the indices
\* 6 and 15 ("world foo" fills the second row); in every layout a word
\* shorter than the width is not broken, and when it does not fit on the row
\* that the text before it is on, there is an index at its start.
C32_Wrap ==
    (bs.list[1].lines # <<>> /\ WrapLine.width # 0) =>
        LET str == WrapLine.Body
            width == WrapLine.width
            nl == WrapLine.newLines
        IN  /\ (str = "hello world foo bar" /\ width = 9) => nl = <<6, 15>>
            /\ \A w \in Words(str) :
                   w[2] - w[1] < width =>
                       /\ \A k \in 1..Len(nl) : ~(w[1] < nl[k] /\ nl[k] < w[2])
                       /\ w[2] - RowFrom(str, RowStart(nl, w[1])) > width
                              => \E k \in 1..Len(nl) : nl[k] = w[1]

\* the example, laid out at width 9
C32_Witness ==
    /\ bs.list[1].lines # <<>>
    /\ WrapLine.Body = "hello world foo bar"
    /\ WrapLine.width = 9
    /\ WrapLine.newLines = <<6, 15>>

\* C33: whatever calls of NewLines and merges a line has been through,
\* NewLines(W) returns the indices of a computation from the current body
\* and W, a second call with W returns the same indices, and a call with
\* another width returns the indices for that width, not the cached ones.
C33_CacheCoherent ==
    bs.list[1].lines # <<>> =>
        \A width \in WrapWidths :
            LET call == LineNewLines(WrapLine, width)
            IN  /\ call.result = Fresh(WrapLine.Body, width)
                /\ LineNewLines(call.line, width).result = call.result
                /\ \A other \in WrapWidths \ {width} :
                       LineNewLines(call.line, other).result = Fresh(WrapLine.Body, other)

\* a line laid out at width 4, merged since, and laid out again at width 4:
\* the indices cached are those of the merged body
C33_Witness ==
    /\ bs.list[1].lines # <<>>
    /\ WrapLine.Data = <<UserJoinEvent("Amy"), UserJoinEvent("Bob")>>
    /\ WrapLine.Body = "+Amy  +Bob"
    /\ WrapLine.width = 4
    /\ WrapLine.newLines = <<4>>

\* the cells of the row that starts at the index nl[k] (at the start of the
\* string for k = 0) and ends at the next index or at the end of the string
RowCells(str, nl, k) ==
    LET from == IF k = 0 THEN 0 ELSE SkipSpace(str, nl[k])
        to == IF k < Len(nl) THEN nl[k + 1] ELSE Len(str)
    IN  IF to > from THEN to - from ELSE 0

\* C34: the rows that the indices of NewLines(W) delimit, whitespace at the
\* start of the rows after the first not counted, are at most W cells wide;
\* the indices are strictly increasing and none is the length of the body.
C34_AsStated ==
    (bs.list[1].lines # <<>> /\ WrapLine.width # 0) =>
        LET str == WrapLine.Body
            nl == WrapLine.newLines
        IN  /\ \A k \in 0..Len(nl) : RowCells(str, nl, k) <= WrapLine.width
            /\ \A k \in 1..(Len(nl) - 1) : nl[k] < nl[k + 1]
            /\ \A k \in 1..Len(nl) : nl[k] # Len(str)

(***************************************************************************)
(* SpecBouncer: the program connected to a bouncer.  The network loop of   *)
(* the bouncer connection (netID "") is started by Run; its messages are   *)
(* notifications of the bouncer network "n1" under one of two names, and   *)
(* handling them starts further network loops.  loop.nets holds the        *)
(* instances of App.ircLoop.                                               *)
(***************************************************************************)
BouncerNames == {"libera", "oftc"}

\* the connection k of the instance i
ConnOf(i, k) == (i - 1) * (MaxNetConns + 1) + k

NetConn(i) == ConnOf(i, loop.nets[i].k)

NetStep(i, a, inst) == LoopStep(a, bs, [loop EXCEPT !.nets[i] = inst])

\* App.ircLoop, the loop condition and app.connect
NetTop(i) ==
    /\ loop.nets[i].pc = "top"
    /\ app.exit \/ loop.nets[i].k < MaxNetConns
    /\ NetStep(i, app,
               IF app.exit THEN [loop.nets[i] EXCEPT !.pc = "done"]
               ELSE [loop.nets[i] EXCEPT !.pc = "session", !.k = @ + 1, !.n = 0])

\* App.ircLoop: app.events <- event{src: netID, content: session}
NetSession(i) ==
    /\ loop.nets[i].pc = "session"
    /\ ~Full(app)
    /\ NetStep(i, Post(app, Event(loop.nets[i].netID, "session", NetConn(i), 0)),
               [loop.nets[i] EXCEPT !.pc = "msgs"])

\* a message arrives on the connection: a notification of a bouncer network
\* on the bouncer connection, any other message on the connection of a
\* network
NetMsg(i) ==
    /\ loop.nets[i].pc = "msgs"
    /\ NetConn(i) \notin loop.irc.closed
    /\ loop.nets[i].n < (IF loop.nets[i].netID = "" THEN MaxNotifs ELSE MaxNetMsgs)
    /\ \E msg \in IF loop.nets[i].netID = ""
                  THEN {BouncerMsg("", NetConn(i), loop.nets[i].n + 1, "n1", name) :
                            name \in BouncerNames}
                  ELSE {Event(loop.nets[i].netID, "msg", NetConn(i), loop.nets[i].n + 1)} :
           NetStep(i, app, [loop.nets[i] EXCEPT !.pc = "send", !.n = @ + 1, !.msg = msg])

\* App.ircLoop: app.events <- event{src: netID, content: msg}
NetSend(i) ==
    /\ loop.nets[i].pc = "send"
    /\ ~Full(app)
    /\ NetStep(i, Post(app, loop.nets[i].msg), [loop.nets[i] EXCEPT !.pc = "msgs", !.msg = <<>>])

\* the channel of incoming messages is closed: the session was closed, which
\* ends the connection, or the server ended it
NetEnd(i) ==
    /\ loop.nets[i].pc = "msgs"
    /\ NetStep(i, app, [loop.nets[i] EXCEPT !.pc = "nil"])

\* App.ircLoop: app.events <- event{src: netID, content: nil}
NetNil(i) ==
    /\ loop.nets[i].pc = "nil"
    /\ ~Full(app)
    /\ NetStep(i, Post(app, Event(loop.nets[i].netID, "nil", NetConn(i), 0)),
               [loop.nets[i] EXCEPT !.pc = "check"])

\* App.ircLoop: if app.win.ShouldExit() { break }; time.Sleep
NetCheck(i) ==
    /\ loop.nets[i].pc = "check"
    /\ NetStep(i, app, [loop.nets[i] EXCEPT !.pc = IF app.exit THEN "done" ELSE "top"])

\* the steps of the instances of App.ircLoop
BouncerTop == \E i \in 1..Len(loop.nets) : NetTop(i)

BouncerSession == \E i \in 1..Len(loop.nets) : NetSession(i)

BouncerMsgIn == \E i \in 1..Len(loop.nets) : NetMsg(i)

BouncerSend == \E i \in 1..Len(loop.nets) : NetSend(i)

BouncerEnd == \E i \in 1..Len(loop.nets) : NetEnd(i)

BouncerNil == \E i \in 1..Len(loop.nets) : NetNil(i)

BouncerCheck == \E i \in 1..Len(loop.nets) : NetCheck(i)

InitBouncer ==
    /\ InitSession(BobNoAuth)
    /\ bs = Add(NewBufferList, "", "(home)", "").bs
    /\ app = NewApp
    /\ loop = NewLoop @@ [nets |-> <<NetLoop("")>>]

NextBouncer ==
    \/ LoopTop \/ LoopRecv \/ LoopBurstEvent \/ DeadlineFires \/ LoopDeadline
    \/ LoopDefault \/ LoopFlush
    \/ BouncerTop \/ BouncerSession \/ BouncerMsgIn \/ BouncerSend \/ BouncerEnd
    \/ BouncerNil \/ BouncerCheck
    \/ SigClose \/ CloseSend("sig") \/ CloseSessions("sig")

SpecBouncer == InitBouncer /\ [][NextBouncer]_vars

\* C35: the event loop never handles a message of a network that has no
\* session in app.sessions: the panic of handleIRCEvent is not reached.
C35_AsStated == loop.done.what # "panic"

(***************************************************************************)
(* The case-folded nick of the session.                                    *)
(***************************************************************************)
\* C36: in every state of the session the case-folded nick is the case
\* folding of the nick, after the retry of a nick in use, after the welcome
\* and after a NICK of the session's own nick.
C36_AsStated == nickCf = ToLower(nick)

(***************************************************************************)
(* SpecEnabled: the enabled capabilities.  The server announces            *)
(* message-tags and draft/chathistory, acknowledges or refuses them and    *)
(* withdraws them; it lists and acknowledges before rplWelcome, announces, *)
(* acknowledges, refuses and withdraws after it, and acknowledges only     *)
(* what it offers at that moment.  srv.sent holds the lines it has sent.   *)
(***************************************************************************)
CapAckReg(list) == MsgList("", "CAP", <<"bob", "ACK">>, list)

CapNak(list) == MsgList("", "CAP", <<"bob", "NAK">>, list)

EnabledMsgs ==
    { Welcome("bob"),
      CapLS(<<Cap("message-tags"), Cap("draft/chathistory")>>),
      CapAck(<<Cap("message-tags")>>),
      CapNew(<<Cap("message-tags")>>),
      CapAckReg(<<Cap("message-tags")>>),
      CapAckReg(<<Cap("draft/chathistory")>>),
      CapNak(<<Cap("message-tags")>>),
      CapDel(<<Cap("message-tags")>>),
      CapDel(<<Cap("draft/chathistory")>>) }

\* the capabilities the server offers after it has sent the lines of sent
RECURSIVE Offered(_)
Offered(sent) ==
    IF sent = <<>> THEN {}
    ELSE LET m == sent[Len(sent)]
             before == Offered(SubSeq(sent, 1, Len(sent) - 1))
         IN  IF m.cmd # "CAP" THEN before
             ELSE IF m.params[2] \in {"LS", "NEW"} THEN before \cup ListNames(m)
             ELSE IF m.params[2] = "DEL" THEN before \ ListNames(m)
             ELSE before

\* the server has sent rplWelcome: it addresses the client by its nick
Welcomed(sent) == \E i \in 1..Len(sent) : sent[i].cmd = rplWelcome

InitEnabled == InitWith(BobNoAuth)

ScanEnabled ==
    /\ nscan < MaxScanCaps
    /\ \E m \in EnabledMsgs :
          /\ (m.cmd = "CAP" /\ m.params[2] = "ACK") => ListNames(m) \subseteq Offered(srv.sent)
          /\ (m.cmd = "CAP") => (m.params[1] = "bob" <=> Welcomed(srv.sent))
          /\ (m.cmd = rplWelcome) => ~Welcomed(srv.sent)
          /\ ReaderScan(m)
          /\ srv' = [srv EXCEPT !.sent = Append(@, m)]

NextEnabled == ScanEnabled \/ RunCheck \/ RunMsg

SpecEnabled == InitEnabled /\ [][NextEnabled]_vars

HasCapability(capability) == capability \in enabledCaps

\* C37: every capability that HasCapability reports as enabled is in the
\* available set, so that a capability withdrawn by CAP DEL or refused by
\* CAP NAK is no longer reported as enabled.
C37_AsStated == \A c \in SupportedCapabilities : HasCapability(c) => c \in availableCaps

(***************************************************************************)
(* C38: CAP END is written at most once in a registration, whatever CAP LS *)
(* lines, rplLoggedin and SASL failure numerics the server sends before    *)
(* rplWelcome.                                                             *)
(***************************************************************************)
C38_AsStated == Count(Lines, "CAP END") <= 1

(***************************************************************************)
(* SpecStream: the events of messages.  The server of SpecBatch, which     *)
(* also sends a message to #a outside of any batch; bob may or may not     *)
(* have joined #a.                                                         *)
(***************************************************************************)
StreamMsgs == BatchMsgs \cup {Privmsg("#a", "five")}

InitStream == InitWith(BobNoAuth)

ScanStream ==
    /\ nscan < MaxScanBatch
    /\ \E m \in StreamMsgs : ReaderScan(m)
    /\ UNCHANGED srv

NextStream == ScanStream \/ RunCheck \/ RunMsg

SpecStream == InitStream /\ [][NextStream]_vars

\* the event is not the nil Event, and if it is a History event none of
\* its messages is
WellFormed(ev) ==
    /\ ev # NilEvent
    /\ ev.type = "History" => \A i \in 1..Len(ev.Messages) : ev.Messages[i] # NilEvent

\* C39: every value on the event stream of the session is a well-formed
\* event: a PRIVMSG or NOTICE to a channel that is not joined, received
\* directly or inside an open history batch, puts no nil event on the
\* stream and no nil entry in the messages of a History event.
C39_AsStated == \A i \in 1..Len(evts) : WellFormed(evts[i])

(***************************************************************************)
(* C40: Remove of a buffer other than the focused one leaves the focus on  *)
(* the buffer of the same netID and title, whether the removed buffer is   *)
(* before or after the focused one; Remove of a buffer that is not in the  *)
(* list changes nothing.                                                   *)
(***************************************************************************)
C40_AsStated ==
    (~bs.panic /\ InList(bs, bs.current)) =>
        \A k \in BufferKeys :
            LET idx == at(bs, k[1], k[2])
                r == Remove(bs, k[1], k[2])
                focused == bs.list[bs.current + 1]
            IN  /\ idx < 0 => (r.bs = bs /\ ~r.ok)
                /\ (idx >= 0 /\ idx # bs.current) =>
                       /\ InList(r.bs, r.bs.current)
                       /\ r.bs.list[r.bs.current + 1].netID = focused.netID
                       /\ r.bs.list[r.bs.current + 1].title = focused.title

====
